---- MODULE Spec2Model ----
(***************************************************************************)
(* Sustainability GRI agent: the indicator data loader (month             *)
(* normalisation, schema validation, multi-file merge), the yearly        *)
(* aggregation used by the dashboard pages, and the z-score anomaly       *)
(* detector.                                                               *)
(*                                                                         *)
(* Text values are sequences of characters (one-character strings; an     *)
(* Arabic letter is written by its name, "AR_YEH").  Numbers are exact    *)
(* integers and rationals: floating-point rounding is not modelled.       *)
(***************************************************************************)
EXTENDS Integers, Sequences, FiniteSets, TLC

VARIABLES
    monthIn,      \* the value handed to normalize_month
    monthOut,     \* what normalize_month returned or raised
    monthVia,     \* which copy of normalize_month ran
    monthAgain,   \* what that copy made of the month it had returned
    dir,          \* the data directory: the spreadsheet files in discovery order
    loaded,       \* the outcome of the last load_indicator call
    df,           \* the indicator table handed to the yearly aggregation
    yearly,       \* the yearly aggregate computed from df
    prevYearly,   \* the yearly aggregate computed before the rows were reordered
    series,       \* the series handed to detect_anomalies
    flags,        \* the outcome of the last detect_anomalies call
    reply,        \* the outcome of the last answer call
    report,       \* the outcome of the last build_gri_pdf_report call
    cache,        \* agent._cache: the table last loaded for each indicator
    written,      \* the files the agent's ReportGenerator has written
    query,        \* the query typed so far
    detected,     \* what _detect_indicator and _detect_years made of the query
    fetched,      \* the outcome of the last agent._get_data call
    disk,         \* the modification time of each file of the data directory, 0 when absent
    clock,        \* the time of the last file modification
    file_timestamps, \* st.session_state.file_timestamps, 0 for a file without an entry
    since,        \* the files as the last scan found them, and a refresh since then
    scan,         \* the outcome of the last detect_file_changes call
    yearlySeries, \* a yearly series: one row per year with its total_value
    compared      \* the flags of the copies of the anomaly check for one series and year

vars == <<monthIn, monthOut, monthVia, monthAgain, dir, loaded, df, yearly, prevYearly, series, flags,
         reply, report, cache, written,
         query, detected,
         fetched,
         disk, clock, file_timestamps, since, scan,
         yearlySeries, compared>>

monthVars == <<monthIn, monthOut, monthVia, monthAgain>>
loadVars == <<dir, loaded>>
yearlyVars == <<df, yearly, prevYearly>>
anomalyVars == <<series, flags>>
agentVars == <<reply, report, cache, written>>
queryVars == <<query, detected>>
cacheVars == <<fetched>>
watchVars == <<disk, clock, file_timestamps, since, scan>>
copyVars == <<yearlySeries, compared>>

----------------------------------------------------------------------------
(* Values and text *)

IntVal(n) == [t |-> "int", v |-> n, s |-> <<>>]
StrVal(s) == [t |-> "str", v |-> 0, s |-> s]

Digits == <<"0", "1", "2", "3", "4", "5", "6", "7", "8", "9">>
UpperCase == <<"A", "B", "C", "D", "E", "F", "G", "H", "I", "J", "K", "L", "M",
               "N", "O", "P", "Q", "R", "S", "T", "U", "V", "W", "X", "Y", "Z">>
LowerCase == <<"a", "b", "c", "d", "e", "f", "g", "h", "i", "j", "k", "l", "m",
               "n", "o", "p", "q", "r", "s", "t", "u", "v", "w", "x", "y", "z">>
Whitespace == {" ", "\t", "\n"}

IsDigit(c) == \E i \in 1..10 : Digits[i] = c
DigitValue(c) == (CHOOSE i \in 1..10 : Digits[i] = c) - 1

\* str.lower, one character
LowerChar(c) ==
    IF \E i \in 1..26 : UpperCase[i] = c
    THEN LowerCase[CHOOSE i \in 1..26 : UpperCase[i] = c]
    ELSE c

\* needle in hay: needle occurs in hay as a substring
Contains(hay, needle) ==
    \E k \in 0..(Len(hay) - Len(needle)) : SubSeq(hay, k + 1, k + Len(needle)) = needle

\* str.upper, one character
UpperChar(c) ==
    IF \E i \in 1..26 : LowerCase[i] = c
    THEN UpperCase[CHOOSE i \in 1..26 : LowerCase[i] = c]
    ELSE c

Lower(s) == [i \in 1..Len(s) |-> LowerChar(s[i])]
Upper(s) == [i \in 1..Len(s) |-> UpperChar(s[i])]

RECURSIVE LStrip(_)
LStrip(s) ==
    IF s # <<>> /\ Head(s) \in Whitespace THEN LStrip(Tail(s)) ELSE s

RECURSIVE RStrip(_)
RStrip(s) ==
    IF s # <<>> /\ s[Len(s)] \in Whitespace
    THEN RStrip(SubSeq(s, 1, Len(s) - 1))
    ELSE s

\* str.strip
Strip(s) == RStrip(LStrip(s))

RECURSIVE NatToStr(_)
NatToStr(n) ==
    IF n < 10 THEN <<Digits[n + 1]>>
    ELSE NatToStr(n \div 10) \o <<Digits[(n % 10) + 1]>>

\* str(value): the decimal text of an integer, a string unchanged
Str(value) ==
    IF value.t = "int"
    THEN IF value.v < 0 THEN <<"-">> \o NatToStr(-value.v) ELSE NatToStr(value.v)
    ELSE value.s

\* The digits of an int() literal: digits, single underscores between them
IsIntBody(b) ==
    /\ b # <<>>
    /\ \A i \in 1..Len(b) : IsDigit(b[i]) \/ b[i] = "_"
    /\ IsDigit(b[1]) /\ IsDigit(b[Len(b)])
    /\ \A i \in 1..(Len(b) - 1) : ~(b[i] = "_" /\ b[i + 1] = "_")

RECURSIVE BodyValue(_, _)
BodyValue(b, acc) ==
    IF b = <<>> THEN acc
    ELSE IF Head(b) = "_" THEN BodyValue(Tail(b), acc)
    ELSE BodyValue(Tail(b), 10 * acc + DigitValue(Head(b)))

\* int(text): [ok, v]; ok is FALSE where Python raises ValueError
ParseInt(text) ==
    LET s == Strip(text)
        signed == s # <<>> /\ Head(s) \in {"+", "-"}
        body == IF signed THEN Tail(s) ELSE s
    IN  IF IsIntBody(body)
        THEN [ok |-> TRUE,
              v |-> IF signed /\ Head(s) = "-" THEN -BodyValue(body, 0)
                    ELSE BodyValue(body, 0)]
        ELSE [ok |-> FALSE, v |-> 0]

----------------------------------------------------------------------------
(* Month normalisation *)

MONTH_MAP ==
       (<<"j", "a", "n">> :> 1)
    @@ (<<"j", "a", "n", "u", "a", "r", "y">> :> 1)
    @@ (<<"AR_YEH", "AR_NOON", "AR_ALEF", "AR_YEH", "AR_REH">> :> 1)
    @@ (<<"f", "e", "b">> :> 2)
    @@ (<<"f", "e", "b", "r", "u", "a", "r", "y">> :> 2)
    @@ (<<"AR_FEH", "AR_BEH", "AR_REH", "AR_ALEF", "AR_YEH", "AR_REH">> :> 2)
    @@ (<<"m", "a", "r">> :> 3)
    @@ (<<"m", "a", "r", "c", "h">> :> 3)
    @@ (<<"AR_MEEM", "AR_ALEF", "AR_REH", "AR_SEEN">> :> 3)
    @@ (<<"a", "p", "r">> :> 4)
    @@ (<<"a", "p", "r", "i", "l">> :> 4)
    @@ (<<"AR_ALEF", "AR_BEH", "AR_REH", "AR_YEH", "AR_LAM">> :> 4)
    @@ (<<"m", "a", "y">> :> 5)
    @@ (<<"AR_MEEM", "AR_ALEF", "AR_YEH", "AR_WAW">> :> 5)
    @@ (<<"j", "u", "n">> :> 6)
    @@ (<<"j", "u", "n", "e">> :> 6)
    @@ (<<"AR_YEH", "AR_WAW", "AR_NOON", "AR_YEH", "AR_WAW">> :> 6)
    @@ (<<"j", "u", "l">> :> 7)
    @@ (<<"j", "u", "l", "y">> :> 7)
    @@ (<<"AR_YEH", "AR_WAW", "AR_LAM", "AR_YEH", "AR_WAW">> :> 7)
    @@ (<<"a", "u", "g">> :> 8)
    @@ (<<"a", "u", "g", "u", "s", "t">> :> 8)
    @@ (<<"AR_ALEF", "AR_GHAIN", "AR_SEEN", "AR_TAH", "AR_SEEN">> :> 8)
    @@ (<<"s", "e", "p">> :> 9)
    @@ (<<"s", "e", "p", "t", "e", "m", "b", "e", "r">> :> 9)
    @@ (<<"AR_SEEN", "AR_BEH", "AR_TEH", "AR_MEEM", "AR_BEH", "AR_REH">> :> 9)
    @@ (<<"o", "c", "t">> :> 10)
    @@ (<<"o", "c", "t", "o", "b", "e", "r">> :> 10)
    @@ (<<"AR_ALEF", "AR_KAF", "AR_TEH", "AR_WAW", "AR_BEH", "AR_REH">> :> 10)
    @@ (<<"n", "o", "v">> :> 11)
    @@ (<<"n", "o", "v", "e", "m", "b", "e", "r">> :> 11)
    @@ (<<"AR_NOON", "AR_WAW", "AR_FEH", "AR_MEEM", "AR_BEH", "AR_REH">> :> 11)
    @@ (<<"d", "e", "c">> :> 12)
    @@ (<<"d", "e", "c", "e", "m", "b", "e", "r">> :> 12)
    @@ (<<"AR_DAL", "AR_YEH", "AR_SEEN", "AR_MEEM", "AR_BEH", "AR_REH">> :> 12)

MONTH_MAP_explorer ==
       (<<"j", "a", "n">> :> 1)
    @@ (<<"j", "a", "n", "u", "a", "r", "y">> :> 1)
    @@ (<<"0", "1">> :> 1)
    @@ (<<"1">> :> 1)
    @@ (<<"f", "e", "b">> :> 2)
    @@ (<<"f", "e", "b", "r", "u", "a", "r", "y">> :> 2)
    @@ (<<"0", "2">> :> 2)
    @@ (<<"2">> :> 2)
    @@ (<<"m", "a", "r">> :> 3)
    @@ (<<"m", "a", "r", "c", "h">> :> 3)
    @@ (<<"0", "3">> :> 3)
    @@ (<<"3">> :> 3)
    @@ (<<"a", "p", "r">> :> 4)
    @@ (<<"a", "p", "r", "i", "l">> :> 4)
    @@ (<<"0", "4">> :> 4)
    @@ (<<"4">> :> 4)
    @@ (<<"m", "a", "y">> :> 5)
    @@ (<<"0", "5">> :> 5)
    @@ (<<"5">> :> 5)
    @@ (<<"j", "u", "n">> :> 6)
    @@ (<<"j", "u", "n", "e">> :> 6)
    @@ (<<"0", "6">> :> 6)
    @@ (<<"6">> :> 6)
    @@ (<<"j", "u", "l">> :> 7)
    @@ (<<"j", "u", "l", "y">> :> 7)
    @@ (<<"0", "7">> :> 7)
    @@ (<<"7">> :> 7)
    @@ (<<"a", "u", "g">> :> 8)
    @@ (<<"a", "u", "g", "u", "s", "t">> :> 8)
    @@ (<<"0", "8">> :> 8)
    @@ (<<"8">> :> 8)
    @@ (<<"s", "e", "p">> :> 9)
    @@ (<<"s", "e", "p", "t", "e", "m", "b", "e", "r">> :> 9)
    @@ (<<"0", "9">> :> 9)
    @@ (<<"9">> :> 9)
    @@ (<<"o", "c", "t">> :> 10)
    @@ (<<"o", "c", "t", "o", "b", "e", "r">> :> 10)
    @@ (<<"n", "o", "v">> :> 11)
    @@ (<<"n", "o", "v", "e", "m", "b", "e", "r">> :> 11)
    @@ (<<"d", "e", "c">> :> 12)
    @@ (<<"d", "e", "c", "e", "m", "b", "e", "r">> :> 12)
    @@ (<<"AR_YEH", "AR_NOON", "AR_ALEF", "AR_YEH", "AR_REH">> :> 1)
    @@ (<<"AR_FEH", "AR_BEH", "AR_REH", "AR_ALEF", "AR_YEH", "AR_REH">> :> 2)
    @@ (<<"AR_MEEM", "AR_ALEF", "AR_REH", "AR_SEEN">> :> 3)
    @@ (<<"AR_ALEF", "AR_BEH", "AR_REH", "AR_YEH", "AR_LAM">> :> 4)
    @@ (<<"AR_MEEM", "AR_ALEF", "AR_YEH", "AR_WAW">> :> 5)
    @@ (<<"AR_YEH", "AR_WAW", "AR_NOON", "AR_YEH", "AR_WAW">> :> 6)
    @@ (<<"AR_YEH", "AR_WAW", "AR_LAM", "AR_YEH", "AR_WAW">> :> 7)
    @@ (<<"AR_ALEF", "AR_GHAIN", "AR_SEEN", "AR_TAH", "AR_SEEN">> :> 8)
    @@ (<<"AR_SEEN", "AR_BEH", "AR_TEH", "AR_MEEM", "AR_BEH", "AR_REH">> :> 9)
    @@ (<<"AR_ALEF", "AR_KAF", "AR_TEH", "AR_WAW", "AR_BEH", "AR_REH">> :> 10)
    @@ (<<"AR_NOON", "AR_WAW", "AR_FEH", "AR_MEEM", "AR_BEH", "AR_REH">> :> 11)
    @@ (<<"AR_DAL", "AR_YEH", "AR_SEEN", "AR_MEEM", "AR_BEH", "AR_REH">> :> 12)

Returned(n) == [kind |-> "int", month |-> n, msg |-> <<>>]
\* ValueError("Unrecognized month format: ..."): msg is the value the message shows
Raised(shown) == [kind |-> "ValueError", month |-> 0, msg |-> shown]

\* A copy without the 1..12 range check
normalize_month_unchecked(value) ==
    LET text == Lower(Strip(Str(value)))
        num == ParseInt(text)
    IN  IF text \in DOMAIN MONTH_MAP THEN Returned(MONTH_MAP[text])
        ELSE IF num.ok THEN Returned(num.v)
        ELSE Raised(text)

\* A copy that knows the month names only
normalize_month_names_only(value) ==
    LET text == Lower(Strip(Str(value)))
    IN  IF text \in DOMAIN MONTH_MAP THEN Returned(MONTH_MAP[text])
        ELSE Raised(text)

\* src/ai_agent/data_loader.py: the message shows the stripped, lowered text
normalize_month(value) ==
    LET text == Lower(Strip(Str(value)))
        num == ParseInt(text)
    IN  IF text \in DOMAIN MONTH_MAP THEN Returned(MONTH_MAP[text])
        ELSE IF num.ok /\ 1 <= num.v /\ num.v <= 12 THEN Returned(num.v)
        ELSE Raised(text)

\* src/data_loader.py (the Data Explorer's loader): the message shows the value as given
normalize_month_explorer(value) ==
    LET val == Lower(Strip(Str(value)))
        num == ParseInt(val)
    IN  IF val \in DOMAIN MONTH_MAP_explorer THEN Returned(MONTH_MAP_explorer[val])
        ELSE IF num.ok /\ 1 <= num.v /\ num.v <= 12 THEN Returned(num.v)
        ELSE Raised(Str(value))

----------------------------------------------------------------------------
(* The month inputs tried *)

EnglishNames ==
    << <<"J", "a", "n", "u", "a", "r", "y">>,
       <<"F", "e", "b", "r", "u", "a", "r", "y">>,
       <<"M", "a", "r", "c", "h">>,
       <<"A", "p", "r", "i", "l">>,
       <<"M", "a", "y">>,
       <<"J", "u", "n", "e">>,
       <<"J", "u", "l", "y">>,
       <<"A", "u", "g", "u", "s", "t">>,
       <<"S", "e", "p", "t", "e", "m", "b", "e", "r">>,
       <<"O", "c", "t", "o", "b", "e", "r">>,
       <<"N", "o", "v", "e", "m", "b", "e", "r">>,
       <<"D", "e", "c", "e", "m", "b", "e", "r">> >>
ArabicNames ==
    << <<"AR_YEH", "AR_NOON", "AR_ALEF", "AR_YEH", "AR_REH">>,
       <<"AR_FEH", "AR_BEH", "AR_REH", "AR_ALEF", "AR_YEH", "AR_REH">>,
       <<"AR_MEEM", "AR_ALEF", "AR_REH", "AR_SEEN">>,
       <<"AR_ALEF", "AR_BEH", "AR_REH", "AR_YEH", "AR_LAM">>,
       <<"AR_MEEM", "AR_ALEF", "AR_YEH", "AR_WAW">>,
       <<"AR_YEH", "AR_WAW", "AR_NOON", "AR_YEH", "AR_WAW">>,
       <<"AR_YEH", "AR_WAW", "AR_LAM", "AR_YEH", "AR_WAW">>,
       <<"AR_ALEF", "AR_GHAIN", "AR_SEEN", "AR_TAH", "AR_SEEN">>,
       <<"AR_SEEN", "AR_BEH", "AR_TEH", "AR_MEEM", "AR_BEH", "AR_REH">>,
       <<"AR_ALEF", "AR_KAF", "AR_TEH", "AR_WAW", "AR_BEH", "AR_REH">>,
       <<"AR_NOON", "AR_WAW", "AR_FEH", "AR_MEEM", "AR_BEH", "AR_REH">>,
       <<"AR_DAL", "AR_YEH", "AR_SEEN", "AR_MEEM", "AR_BEH", "AR_REH">> >>

MaxMonthNumber == 14

Abbrev(name) == SubSeq(name, 1, 3)
Padded(s) == <<" ">> \o s \o <<" ">>
Cases(s) == {s, Lower(s), Upper(s)}

\* The spellings of month m that the loader documents as accepted
Spellings(m) ==
    {IntVal(m)}
    \cup {StrVal(t) : t \in {NatToStr(m), <<"0">> \o NatToStr(m), <<"+">> \o NatToStr(m)}}
    \cup {StrVal(t) : t \in Cases(EnglishNames[m]) \cup Cases(Abbrev(EnglishNames[m]))}
    \cup {StrVal(ArabicNames[m])}
    \cup {StrVal(Padded(t)) : t \in {NatToStr(m), Abbrev(EnglishNames[m]), ArabicNames[m]}}

Accepted == UNION {Spellings(m) : m \in 1..12}

\* Inputs that are no month
Rejected ==
    {IntVal(n) : n \in ((-1)..MaxMonthNumber) \ (1..12)}
    \cup {StrVal(NatToStr(n)) : n \in (0..MaxMonthNumber) \ (1..12)}
    \cup {StrVal(t) : t \in {<<"f", "o", "o">>, <<>>, <<" ">>, <<"1", ".", "0">>,
                             <<"-", "1">>, <<"j", "a", "n", "u">>, <<"S", "e", "p", "t">>,
                             <<"1", " ", "2">>, <<"_", "1">>, <<"1", "_", "_", "2">>,
                             <<"0", "0">>, <<"1", "3", "0">>}}

MonthInputs == Accepted \cup Rejected

NoResult == [kind |-> "none", month |-> 0, msg |-> <<>>]

NormalizeMonth ==
    /\ monthVia = "none"
    /\ monthOut' = normalize_month(monthIn)
    /\ monthVia' = "agent"
    /\ UNCHANGED <<monthIn, monthAgain>>

NormalizeMonthExplorer ==
    /\ monthVia = "none"
    /\ monthOut' = normalize_month_explorer(monthIn)
    /\ monthVia' = "explorer"
    /\ UNCHANGED <<monthIn, monthAgain>>

\* The month a copy returned is handed to the same copy again
NormalizeAgain ==
    /\ monthVia # "none"
    /\ monthOut.kind = "int"
    /\ monthAgain = NoResult
    /\ monthAgain' = IF monthVia = "agent" THEN normalize_month(IntVal(monthOut.month))
                     ELSE normalize_month_explorer(IntVal(monthOut.month))
    /\ UNCHANGED <<monthIn, monthOut, monthVia>>

----------------------------------------------------------------------------
(* The indicator registry and the data directory *)

\* config.py: the registered indicator keys
INDICATORS == {"energy", "water", "emissions", "waste"}

AllColumns == {"Year", "Month", "Indicator", "Value", "Unit", "Remarks"}

\* A file is the indicator sheet it holds: its columns and its rows, in sheet order.
\* A cell of a column the sheet lacks holds Blank and is never read.
Blank == IntVal(0)

\* An Indicator cell is written as the key of the indicator it names; the cell of a
\* sheet without the column is empty
NoIndicator == ""

\* One table row after normalisation; idx is the row's index label after pd.concat,
\* origin the <<file, sheet row>> it was read from (kept for the claims only)
TableRow(year, month, value, unit, indicator, origin) ==
    [Year |-> year, Month |-> month, Value |-> value, Unit |-> unit,
     Indicator |-> indicator, idx |-> 0, origin |-> origin]

\* Series.astype(int), one cell
AsInt(cell) == IF cell.t = "int" THEN cell.v ELSE ParseInt(cell.s).v

\* pd.concat(frames, ignore_index=True): the rows of the frames in order, relabelled
SameContent(a, b) ==
    a.Year = b.Year /\ a.Month = b.Month /\ a.Value = b.Value /\ a.Unit = b.Unit

\* The rows from position k on that repeat no earlier row
RECURSIVE FirstOccurrences(_, _)
FirstOccurrences(rows, k) ==
    IF k > Len(rows) THEN <<>>
    ELSE (IF \E j \in 1..(k - 1) : SameContent(rows[j], rows[k]) THEN <<>> ELSE <<rows[k]>>)
         \o FirstOccurrences(rows, k + 1)

RECURSIVE Flatten(_)
Flatten(frames) ==
    IF frames = <<>> THEN <<>> ELSE Head(frames) \o Flatten(Tail(frames))

\* A merge that drops a row repeating the Year, Month, Value and Unit of an earlier one
concat_drop_duplicates(frames) ==
    LET kept == FirstOccurrences(Flatten(frames), 1)
    IN  [k \in 1..Len(kept) |-> [kept[k] EXCEPT !.idx = k]]

concat(frames) ==
    LET rows == Flatten(frames)
    IN  [k \in 1..Len(rows) |-> [rows[k] EXCEPT !.idx = k]]

\* (Year, Month) compared lexicographically
KeyLeq(a, b) == a.Year < b.Year \/ (a.Year = b.Year /\ a.Month <= b.Month)

\* Insertion after every row whose key is not greater: equal keys keep their order
RECURSIVE InsertStable(_, _)
InsertStable(sorted, x) ==
    IF sorted = <<>> THEN <<x>>
    ELSE IF KeyLeq(Head(sorted), x) THEN <<Head(sorted)>> \o InsertStable(Tail(sorted), x)
    ELSE <<x>> \o sorted

\* data.sort_values(["Year", "Month"]): the multi-key sort is a stable lexsort
RECURSIVE SortInto(_, _)
SortInto(rows, acc) ==
    IF rows = <<>> THEN acc ELSE SortInto(Tail(rows), InsertStable(acc, Head(rows)))

sort_values_year_month(rows) == SortInto(rows, <<>>)

\* Outcomes of load_indicator
NotLoaded ==
    [kind |-> "none", via |-> "none", key |-> "", table |-> <<>>,
     file |-> 0, missing |-> {}, shown |-> <<>>]
Table(via, key, rows) ==
    [kind |-> "table", via |-> via, key |-> key, table |-> rows,
     file |-> 0, missing |-> {}, shown |-> <<>>]
Failure(via, key, kind, file, missing, shown) ==
    [kind |-> kind, via |-> via, key |-> key, table |-> <<>>,
     file |-> file, missing |-> missing, shown |-> shown]

ErrorKinds == {"UnknownIndicator", "NoDataFiles", "MissingColumns", "MonthFormat"}

\* df["Month"].apply(normalize_month): the first row whose Month is rejected raises;
\* 0 when no row is rejected
FirstBadMonth(rows) ==
    IF \E j \in 1..Len(rows) : normalize_month(rows[j].Month).kind = "ValueError"
    THEN CHOOSE j \in 1..Len(rows) :
            /\ normalize_month(rows[j].Month).kind = "ValueError"
            /\ \A k \in 1..(j - 1) : normalize_month(rows[k].Month).kind # "ValueError"
    ELSE 0

FirstBadMonth_explorer(rows) ==
    IF \E j \in 1..Len(rows) : normalize_month_explorer(rows[j].Month).kind = "ValueError"
    THEN CHOOSE j \in 1..Len(rows) :
            /\ normalize_month_explorer(rows[j].Month).kind = "ValueError"
            /\ \A k \in 1..(j - 1) :
                  normalize_month_explorer(rows[k].Month).kind # "ValueError"
    ELSE 0

----------------------------------------------------------------------------
(* load_indicator of src/ai_agent/data_loader.py *)

\* The per-file frame: Unit and Month defaulted when absent, Month normalised, Year coerced
Frame(f, i) ==
    [j \in 1..Len(f.rows) |->
        TableRow(AsInt(f.rows[j].Year),
                 IF "Month" \in f.cols THEN normalize_month(f.rows[j].Month).month ELSE 1,
                 f.rows[j].Value,
                 IF "Unit" \in f.cols THEN f.rows[j].Unit ELSE "unit",
                 f.rows[j].Indicator,
                 <<i, j>>)]

Required == {"Year", "Value"}

\* The loop over the files: the first failure raises, else the frames in file order
RECURSIVE ReadFiles(_, _, _, _)
ReadFiles(key, d, i, frames) ==
    IF i > Len(d) THEN Table("agent", key, sort_values_year_month(concat(frames)))
    ELSE LET f == d[i]
             missing == Required \ f.cols
             bad == IF "Month" \in f.cols THEN FirstBadMonth(f.rows) ELSE 0
         IN  IF missing # {}
             THEN Failure("agent", key, "MissingColumns", i, missing, <<>>)
             ELSE IF bad # 0
             THEN Failure("agent", key, "MonthFormat", i, {},
                          normalize_month(f.rows[bad].Month).msg)
             ELSE ReadFiles(key, d, i + 1, Append(frames, Frame(f, i)))

\* A loader that leaves out a file with missing columns and merges the others
RECURSIVE ReadFilesSkipping(_, _, _, _)
ReadFilesSkipping(key, d, i, frames) ==
    IF i > Len(d) THEN Table("agent", key, sort_values_year_month(concat(frames)))
    ELSE LET f == d[i]
             bad == IF "Month" \in f.cols THEN FirstBadMonth(f.rows) ELSE 0
         IN  IF Required \ f.cols # {}
             THEN ReadFilesSkipping(key, d, i + 1, frames)
             ELSE IF bad # 0
             THEN Failure("agent", key, "MonthFormat", i, {},
                          normalize_month(f.rows[bad].Month).msg)
             ELSE ReadFilesSkipping(key, d, i + 1, Append(frames, Frame(f, i)))

load_indicator_skipping(key, d) ==
    IF key \notin INDICATORS THEN Failure("agent", key, "UnknownIndicator", 0, {}, <<>>)
    ELSE IF d = <<>> THEN Failure("agent", key, "NoDataFiles", 0, {}, <<>>)
    ELSE ReadFilesSkipping(key, d, 1, <<>>)

\* A loader that discovers the files before it looks the key up
load_indicator_discover_first(key, d) ==
    IF d = <<>> THEN Failure("agent", key, "NoDataFiles", 0, {}, <<>>)
    ELSE IF key \notin INDICATORS THEN Failure("agent", key, "UnknownIndicator", 0, {}, <<>>)
    ELSE ReadFiles(key, d, 1, <<>>)

\* A loader that merges whatever it discovered, an empty list of files included
load_indicator_unchecked_discovery(key, d) ==
    IF key \notin INDICATORS THEN Failure("agent", key, "UnknownIndicator", 0, {}, <<>>)
    ELSE ReadFiles(key, d, 1, <<>>)

load_indicator(key, d) ==
    IF key \notin INDICATORS THEN Failure("agent", key, "UnknownIndicator", 0, {}, <<>>)
    ELSE IF d = <<>> THEN Failure("agent", key, "NoDataFiles", 0, {}, <<>>)
    ELSE ReadFiles(key, d, 1, <<>>)

----------------------------------------------------------------------------
(* load_indicator of src/data_loader.py, the loader of the Data Explorer page *)

Frame_explorer(f, i) ==
    [j \in 1..Len(f.rows) |->
        TableRow(AsInt(f.rows[j].Year),
                 normalize_month_explorer(f.rows[j].Month).month,
                 f.rows[j].Value,
                 f.rows[j].Unit,
                 f.rows[j].Indicator,
                 <<i, j>>)]

\* df.sort_values("Month"): a single-key sort with the default kind "quicksort",
\* which is not stable: every Month-sorted arrangement of the rows is an outcome
sort_values_month(rows) ==
    LET n == Len(rows)
        Arrangements == {p \in [1..n -> 1..n] : \A a, b \in 1..n : a # b => p[a] # p[b]}
    IN  {[k \in 1..n |-> rows[p[k]]] : p \in
            {q \in Arrangements :
                \A k \in 1..(n - 1) : rows[q[k]].Month <= rows[q[k + 1]].Month}}

\* The loop over the files: the set of outcomes the per-file sort allows
RECURSIVE ReadFiles_explorer(_, _, _, _)
ReadFiles_explorer(key, d, i, frames) ==
    IF i > Len(d) THEN {Table("explorer", key, sort_values_year_month(concat(frames)))}
    ELSE LET f == d[i]
             missing == AllColumns \ f.cols
             bad == FirstBadMonth_explorer(f.rows)
         IN  IF missing # {}
             THEN {Failure("explorer", key, "MissingColumns", i, missing, <<>>)}
             ELSE IF bad # 0
             THEN {Failure("explorer", key, "MonthFormat", i, {},
                           normalize_month_explorer(f.rows[bad].Month).msg)}
             ELSE UNION {ReadFiles_explorer(key, d, i + 1, Append(frames, fr)) :
                            fr \in sort_values_month(Frame_explorer(f, i))}

load_indicator_explorer(key, d) ==
    IF key \notin INDICATORS THEN {Failure("explorer", key, "UnknownIndicator", 0, {}, <<>>)}
    ELSE IF d = <<>> THEN {Failure("explorer", key, "NoDataFiles", 0, {}, <<>>)}
    ELSE ReadFiles_explorer(key, d, 1, <<>>)

----------------------------------------------------------------------------
(* The data directory as its owner fills it, and the two loads *)

MaxFiles == 2
MaxRows == 2

ColumnSets == {AllColumns, {"Year", "Value"}, AllColumns \ {"Value"}}

YearCells == {IntVal(2020), StrVal(<<"2", "0", "2", "1">>)}
MonthCells == {StrVal(<<"J", "a", "n">>), IntVal(2), StrVal(<<"F", "o", "o">>)}
ValueCells == {50, 70}

\* The rows a sheet with the columns cols can hold
SheetRows(cols) ==
    [Year  : IF "Year" \in cols THEN YearCells ELSE {Blank},
     Month : IF "Month" \in cols THEN MonthCells ELSE {Blank},
     Value : IF "Value" \in cols THEN ValueCells ELSE {0},
     Unit  : IF "Unit" \in cols THEN {"kWh"} ELSE {""},
     Indicator : IF "Indicator" \in cols THEN {"energy"} ELSE {NoIndicator}]

RECURSIVE RowCount(_)
RowCount(d) == IF d = <<>> THEN 0 ELSE Len(Head(d).rows) + RowCount(Tail(d))

RequestKeys == {"energy", "solar"}

\* A new spreadsheet appears in the data directory
AddFile ==
    /\ loaded = NotLoaded
    /\ Len(dir) < MaxFiles
    /\ \E cols \in ColumnSets : dir' = Append(dir, [cols |-> cols, rows |-> <<>>])
    /\ UNCHANGED loaded

\* A row is written to the newest spreadsheet
AddRow ==
    /\ loaded = NotLoaded
    /\ dir # <<>>
    /\ RowCount(dir) < MaxRows
    /\ \E row \in SheetRows(dir[Len(dir)].cols) :
          dir' = [dir EXCEPT ![Len(dir)].rows = Append(@, row)]
    /\ UNCHANGED loaded

LoadIndicator ==
    /\ loaded = NotLoaded
    /\ \E key \in RequestKeys : loaded' = load_indicator(key, dir)
    /\ UNCHANGED dir

LoadIndicatorExplorer ==
    /\ loaded = NotLoaded
    /\ \E key \in RequestKeys : loaded' \in load_indicator_explorer(key, dir)
    /\ UNCHANGED dir

----------------------------------------------------------------------------
(* Yearly aggregation *)

\* A cell of change_abs / change_pct: NaN, an exact rational n/d, or +-infinity
Null == [kind |-> "null", n |-> 0, d |-> 1]
Inf(sign) == [kind |-> "inf", n |-> sign, d |-> 0]

Abs(x) == IF x < 0 THEN -x ELSE x

RECURSIVE GCD(_, _)
GCD(a, b) == IF b = 0 THEN a ELSE GCD(b, a % b)

\* n/d in lowest terms with a positive denominator (d # 0)
Ratio(n, d) ==
    LET g == GCD(Abs(n), Abs(d))
        sgn == IF d < 0 THEN -1 ELSE 1
    IN  [kind |-> "num", n |-> sgn * (n \div g), d |-> sgn * (d \div g)]

Num(n) == Ratio(n, 1)

\* a / b as the float division of numpy: x/0 is +-inf, 0/0 is NaN
Divide(a, b) ==
    IF b # 0 THEN Ratio(a, b)
    ELSE IF a > 0 THEN Inf(1)
    ELSE IF a < 0 THEN Inf(-1)
    ELSE Null

\* x - k and x * k for an integer k; NaN and infinities propagate (k > 0)
Minus(x, k) == IF x.kind = "num" THEN Ratio(x.n - k * x.d, x.d) ELSE x
Times(x, k) == IF x.kind = "num" THEN Ratio(x.n * k, x.d) ELSE x

YearlyRow(year, total, abs, pct) ==
    [Year |-> year, total_value |-> total, change_abs |-> abs, change_pct |-> pct]

\* The sum of Value over the rows of one year, in row order
RECURSIVE SumOfYear(_, _)
SumOfYear(rows, year) ==
    IF rows = <<>> THEN 0
    ELSE (IF Head(rows).Year = year THEN Head(rows).Value ELSE 0)
         + SumOfYear(Tail(rows), year)

RECURSIVE Ascending(_)
Ascending(S) ==
    IF S = {} THEN <<>>
    ELSE LET lo == CHOOSE x \in S : \A y \in S : x <= y
         IN  <<lo>> \o Ascending(S \ {lo})

\* The group keys in order of first appearance (groupby(..., sort=False))
RECURSIVE FirstSeen(_, _)
FirstSeen(rows, seen) ==
    IF rows = <<>> THEN <<>>
    ELSE IF Head(rows).Year \in seen THEN FirstSeen(Tail(rows), seen)
    ELSE <<Head(rows).Year>> \o FirstSeen(Tail(rows), seen \cup {Head(rows).Year})

\* A group-by that keeps the groups in order of first appearance
groupby_sum_unsorted(rows) ==
    LET years == FirstSeen(rows, {})
    IN  [i \in 1..Len(years) |-> [Year |-> years[i], total_value |-> SumOfYear(rows, years[i])]]

\* A group-by that keeps the last Value of each year instead of the sum
groupby_last(rows) ==
    LET years == Ascending({rows[k].Year : k \in 1..Len(rows)})
        LastOf(y) == rows[CHOOSE k \in 1..Len(rows) :
                            rows[k].Year = y /\ \A j \in (k + 1)..Len(rows) : rows[j].Year # y]
    IN  [i \in 1..Len(years) |-> [Year |-> years[i], total_value |-> LastOf(years[i]).Value]]

\* df.groupby("Year", as_index=False).agg(total_value=("Value", "sum")):
\* one row per Year, ascending
groupby_sum(rows) ==
    LET years == Ascending({rows[k].Year : k \in 1..Len(rows)})
    IN  [i \in 1..Len(years) |-> [Year |-> years[i], total_value |-> SumOfYear(rows, years[i])]]

\* A difference taken against the first row instead of the preceding one
diff_from_first(totals, i) ==
    IF i = 1 THEN Null ELSE Num(totals[i].total_value - totals[1].total_value)

\* Series.diff(): NaN on the first row
diff(totals, i) ==
    IF i = 1 THEN Null ELSE Num(totals[i].total_value - totals[i - 1].total_value)

\* Series.pct_change() * 100: (x[i] / x[i-1] - 1) * 100, NaN on the first row
pct_change_100(totals, i) ==
    IF i = 1 THEN Null
    ELSE Times(Minus(Divide(totals[i].total_value, totals[i - 1].total_value), 1), 100)

\* The group-by-sum fallback of the dashboard and report pages
yearly_fallback(rows) ==
    LET totals == groupby_sum(rows)
    IN  [i \in 1..Len(totals) |->
            YearlyRow(totals[i].Year, totals[i].total_value,
                      diff(totals, i), pct_change_100(totals, i))]

\* kpi_service.compute_yearly_totals: change_pct is null after a zero total
compute_yearly_totals(rows) ==
    LET totals == groupby_sum(rows)
    IN  [i \in 1..Len(totals) |->
            YearlyRow(totals[i].Year, totals[i].total_value,
                      diff(totals, i),
                      IF i > 1 /\ totals[i - 1].total_value # 0
                      THEN Ratio((totals[i].total_value - totals[i - 1].total_value) * 100,
                                 totals[i - 1].total_value)
                      ELSE Null)]

NoYearly == [path |-> "none", rows |-> <<>>]

MaxRecords == 3

RecordYears == {2019, 2021, 2022}
RecordValues == {-50, 0, 50, 70}

\* A record is appended to the indicator table
AppendRecord ==
    /\ yearly = NoYearly /\ prevYearly = NoYearly
    /\ Len(df) < MaxRecords
    /\ \E y \in RecordYears, v \in RecordValues :
          df' = Append(df, [Year |-> y, Value |-> v])
    /\ UNCHANGED <<yearly, prevYearly>>

\* compute_yearly_totals returns
ComputeYearly ==
    /\ yearly = NoYearly
    /\ yearly' = [path |-> "primary", rows |-> compute_yearly_totals(df)]
    /\ UNCHANGED <<df, prevYearly>>

\* compute_yearly_totals raises and the page falls back to its own group-by
ComputeYearlyFallback ==
    /\ yearly = NoYearly
    /\ yearly' = [path |-> "fallback", rows |-> yearly_fallback(df)]
    /\ UNCHANGED <<df, prevYearly>>

\* The rows of the table are reordered and the aggregate is asked for again
ReorderRows ==
    /\ yearly # NoYearly /\ prevYearly = NoYearly
    /\ \E p \in {q \in [1..Len(df) -> 1..Len(df)] :
                    \A a, b \in 1..Len(df) : a # b => q[a] # q[b]} :
          /\ [k \in 1..Len(df) |-> df[p[k]]] # df
          /\ df' = [k \in 1..Len(df) |-> df[p[k]]]
    /\ prevYearly' = yearly
    /\ yearly' = NoYearly

----------------------------------------------------------------------------
(* Anomaly detection *)

\* A series cell: a number or NaN
Cell(v) == [na |-> FALSE, v |-> v]
NaN == [na |-> TRUE, v |-> 0]

\* series.dropna()
RECURSIVE dropna(_)
dropna(s) ==
    IF s = <<>> THEN <<>>
    ELSE IF Head(s).na THEN dropna(Tail(s))
    ELSE <<Head(s)>> \o dropna(Tail(s))

RECURSIVE SumOf(_)
SumOf(s) == IF s = <<>> THEN 0 ELSE Head(s).v + SumOf(Tail(s))

RECURSIVE SumOfSquares(_)
SumOfSquares(s) == IF s = <<>> THEN 0 ELSE Head(s).v * Head(s).v + SumOfSquares(Tail(s))

\* N^2 times the population variance of s: N * sum(x^2) - sum(x)^2
ScaledVariance(s) == Len(s) * SumOfSquares(s) - SumOf(s) * SumOf(s)

\* A comparison that also flags a score equal to the threshold
ZAtLeast(v, s, t) ==
    LET dev == Len(s) * v - SumOf(s)
    IN  IF t.n < 0 THEN TRUE
        ELSE dev * dev * t.d * t.d >= t.n * t.n * ScaledVariance(s)

\* A score that is the deviation from the mean, not divided by sigma
ZAbove_unscaled(v, s, t) ==
    LET dev == Len(s) * v - SumOf(s)
    IN  Abs(dev) * t.d > t.n * Len(s)

\* |v - mu| / sigma > threshold with mu = S/N, sigma = sqrt(N*Q - S^2)/N and
\* threshold = t.n/t.d, d > 0, compared without the square root
ZAbove(v, s, t) ==
    LET dev == Len(s) * v - SumOf(s)
    IN  IF t.n < 0 THEN TRUE
        ELSE dev * dev * t.d * t.d > t.n * t.n * ScaledVariance(s)

\* A copy that flags the rows of the series after dropna()
detect_anomalies_dropna(series_, threshold) ==
    LET s == dropna(series_)
    IN  IF s = <<>> \/ ScaledVariance(s) = 0
        THEN [i \in 1..Len(series_) |-> FALSE]
        ELSE [i \in 1..Len(s) |-> ZAbove(s[i].v, s, threshold)]

\* agent.detect_anomalies: mean and std(ddof=0) of the non-missing values; every flag
\* False when sigma is 0 or NaN; a NaN cell compares False
detect_anomalies(series_, threshold) ==
    LET s == dropna(series_)
    IN  IF s = <<>> \/ ScaledVariance(s) = 0
        THEN [i \in 1..Len(series_) |-> FALSE]
        ELSE [i \in 1..Len(series_) |->
                IF series_[i].na THEN FALSE ELSE ZAbove(series_[i].v, s, threshold)]

NoFlags == [called |-> FALSE, threshold |-> Null, out |-> <<>>]

MaxSeries == 5

SeriesCells == {NaN} \cup {Cell(v) : v \in {98, 100, 102, 105, 500}}
Thresholds == {Ratio(3, 1), Ratio(2, 1), Ratio(3, 2), Ratio(1, 1), Ratio(0, 1), Ratio(-1, 1)}

\* A value is appended to the series
AppendValue ==
    /\ flags = NoFlags
    /\ Len(series) < MaxSeries
    /\ \E c \in SeriesCells : series' = Append(series, c)
    /\ UNCHANGED flags

DetectAnomalies ==
    /\ flags = NoFlags
    /\ \E t \in Thresholds :
          flags' = [called |-> TRUE, threshold |-> t, out |-> detect_anomalies(series, t)]
    /\ UNCHANGED series

----------------------------------------------------------------------------
(* Anomaly detection at the default threshold, in floating point *)

\* mean, std and the score are computed in double precision.  A score that differs
\* from the threshold in exact arithmetic compares as in exact arithmetic; a score
\* that equals the threshold in exact arithmetic is computed with a rounding error
\* and compares above it (up) or not: nine values of 100 and one of 101 have the
\* exact score 3 and the computed score 3.000000000000019, nine values of 100 and
\* one of 500 the computed score 3.0.

\* The score without the square root of the variance
ZAboveRounded_no_root(v, s, t, up) ==
    LET dev == Len(s) * v - SumOf(s)
    IN  Abs(dev) * Len(s) * t.d > t.n * ScaledVariance(s)

ZAboveRounded(v, s, t, up) ==
    LET dev == Len(s) * v - SumOf(s)
    IN  IF t.n < 0 THEN TRUE
        ELSE \/ dev * dev * t.d * t.d > t.n * t.n * ScaledVariance(s)
             \/ up /\ dev * dev * t.d * t.d = t.n * t.n * ScaledVariance(s)

\* detect_anomalies with the comparison of the computed score
detect_anomalies_rounded(series_, threshold, up) ==
    LET s == dropna(series_)
    IN  IF s = <<>> \/ ScaledVariance(s) = 0
        THEN [i \in 1..Len(series_) |-> FALSE]
        ELSE [i \in 1..Len(series_) |->
                IF series_[i].na THEN FALSE
                ELSE ZAboveRounded(series_[i].v, s, threshold, up)]

MaxReadings == 10

\* The yearly totals of an indicator whose years differ little
Readings == {100, 101}

\* One more year of data: its total is appended to the yearly series
AppendReading ==
    /\ flags = NoFlags
    /\ Len(series) < MaxReadings
    /\ \E v \in Readings : series' = Append(series, Cell(v))
    /\ UNCHANGED flags

\* yearly["anomaly"] = detect_anomalies(yearly["total_value"]), threshold 3.0
DetectOutliers ==
    /\ flags = NoFlags
    /\ \E up \in BOOLEAN :
          flags' = [called |-> TRUE, threshold |-> Ratio(3, 1),
                    out |-> detect_anomalies_rounded(series, Ratio(3, 1), up)]
    /\ UNCHANGED series

----------------------------------------------------------------------------
(* The agent: indicator and year detection *)

\* No indicator keyword in the query
None == "None"

\* The keywords of _detect_indicator, in the order they are tried
Keywords ==
    << [key |-> "energy", words |-> {<<"e", "n", "e", "r", "g", "y">>, <<"e", "l", "e", "c", "t", "r", "i", "c", "i", "t", "y">>, <<"3", "0", "2">>}],
       [key |-> "water", words |-> {<<"w", "a", "t", "e", "r">>, <<"3", "0", "3">>}],
       [key |-> "emissions", words |-> {<<"e", "m", "i", "s", "s", "i", "o", "n">>, <<"c", "o", "2">>, <<"g", "h", "g">>, <<"3", "0", "5">>}],
       [key |-> "waste", words |-> {<<"w", "a", "s", "t", "e">>, <<"3", "0", "6">>}] >>

\* The last indicator, in the order of Keywords, one of whose keywords occurs
detect_indicator_last_match(q) ==
    LET low == Lower(q)
        Hit(i) == \E x \in Keywords[i].words : Contains(low, x)
    IN  IF \E i \in 1..Len(Keywords) : Hit(i)
        THEN Keywords[CHOOSE i \in 1..Len(Keywords) :
                        Hit(i) /\ \A j \in (i + 1)..Len(Keywords) : ~Hit(j)].key
        ELSE None

\* _detect_indicator: the first indicator, in the order of Keywords, one of whose
\* keywords occurs in the lowered query
detect_indicator(q) ==
    LET low == Lower(q)
        Hit(i) == \E x \in Keywords[i].words : Contains(low, x)
    IN  IF \E i \in 1..Len(Keywords) : Hit(i)
        THEN Keywords[CHOOSE i \in 1..Len(Keywords) :
                        Hit(i) /\ \A j \in 1..(i - 1) : ~Hit(j)].key
        ELSE None

\* re.findall(r"(20[0-9]{2})", q): the non-overlapping matches, scanned from the left
RECURSIVE FindYears(_, _)
FindYears(q, i) ==
    IF i + 3 > Len(q) THEN <<>>
    ELSE IF q[i] = "2" /\ q[i + 1] = "0" /\ IsDigit(q[i + 2]) /\ IsDigit(q[i + 3])
    THEN <<2000 + 10 * DigitValue(q[i + 2]) + DigitValue(q[i + 3])>> \o FindYears(q, i + 4)
    ELSE FindYears(q, i + 1)

\* df["Year"].max()
MaxYear(rows) ==
    CHOOSE y \in {rows[k].Year : k \in 1..Len(rows)} :
        \A k \in 1..Len(rows) : rows[k].Year <= y

\* _detect_years: the years found in the query, else the latest year of the table;
\* int(NaN) raises ValueError when the table has no row
detect_years(q, rows) ==
    LET found == FindYears(q, 1)
    IN  IF found # <<>> THEN [ok |-> TRUE, years |-> found]
        ELSE IF rows = <<>> THEN [ok |-> FALSE, years |-> <<>>]
        ELSE [ok |-> TRUE, years |-> <<MaxYear(rows)>>]

----------------------------------------------------------------------------
(* The agent: forecast, answer *)

RECURSIVE SumYears(_)
SumYears(rows) == IF rows = <<>> THEN 0 ELSE Head(rows).Year + SumYears(Tail(rows))

RECURSIVE SumTotals(_)
SumTotals(rows) == IF rows = <<>> THEN 0 ELSE Head(rows).total_value + SumTotals(Tail(rows))

RECURSIVE SumYearTotal(_)
SumYearTotal(rows) ==
    IF rows = <<>> THEN 0
    ELSE Head(rows).Year * Head(rows).total_value + SumYearTotal(Tail(rows))

RECURSIVE SumYearSquares(_)
SumYearSquares(rows) ==
    IF rows = <<>> THEN 0 ELSE Head(rows).Year * Head(rows).Year + SumYearSquares(Tail(rows))

\* What forecast_next_year returned: a pair, or nothing when it raised
NoForecast == [ok |-> FALSE, next_year |-> 0, predicted |-> Null]

\* The fitted line read at the latest year of the data, returned for the year after
forecast_at_latest_year(rows) ==
    IF Len(rows) < 2 THEN NoForecast
    ELSE LET n == Len(rows)
             Sx == SumYears(rows)
             Sy == SumTotals(rows)
             slopeNum == n * SumYearTotal(rows) - Sx * Sy
             slopeDen == n * SumYearSquares(rows) - Sx * Sx
         IN  [ok |-> TRUE, next_year |-> MaxYear(rows) + 1,
              predicted |-> Ratio(Sy * slopeDen + slopeNum * (n * MaxYear(rows) - Sx),
                                  n * slopeDen)]

\* kpi_service.forecast_next_year: with fewer than two points it raises; else the
\* least-squares line total = a + b * year through the points, at max(year) + 1:
\* b = (n Sxy - Sx Sy) / (n Sxx - Sx^2), a = (Sy - b Sx) / n
forecast_next_year(rows) ==
    IF Len(rows) < 2 THEN NoForecast
    ELSE LET n == Len(rows)
             Sx == SumYears(rows)
             Sy == SumTotals(rows)
             slopeNum == n * SumYearTotal(rows) - Sx * Sy
             slopeDen == n * SumYearSquares(rows) - Sx * Sx
             next == MaxYear(rows) + 1
         IN  [ok |-> TRUE, next_year |-> next,
              predicted |-> Ratio(Sy * slopeDen + slopeNum * (n * next - Sx), n * slopeDen)]

\* [y for y in years_req if y in years_available]
RECURSIVE Keep(_, _)
Keep(years, available) ==
    IF years = <<>> THEN <<>>
    ELSE (IF Head(years) \in available THEN <<Head(years)>> ELSE <<>>)
         \o Keep(Tail(years), available)

\* yearly[yearly["anomaly"]]
RECURSIVE Flagged(_)
Flagged(kpis) ==
    IF kpis = <<>> THEN <<>>
    ELSE (IF Head(kpis).anomaly THEN <<Head(kpis)>> ELSE <<>>) \o Flagged(Tail(kpis))

\* anomaly_stats: count, min, max and mean of the totals (std is left out)
anomaly_stats(yearly_) ==
    LET totals == {yearly_[i].total_value : i \in 1..Len(yearly_)}
    IN  [count |-> Len(yearly_),
         min |-> CHOOSE v \in totals : \A w \in totals : v <= w,
         max |-> CHOOSE v \in totals : \A w \in totals : w <= v,
         mean |-> Ratio(SumTotals(yearly_), Len(yearly_))]

NoStats == [count |-> 0, min |-> 0, max |-> 0, mean |-> Null]

\* ReportGenerator.write_csv / write_pdf: the files written for an indicator
ReportFiles(key) == {<<key, "analysis.csv">>, <<key, "plot.png">>, <<key, "summary.pdf">>}

NoContext ==
    [indicator_key |-> "", unit |-> "", years |-> <<>>, kpis |-> <<>>, narratives |-> {},
     anomalies |-> <<>>, anomaly_summary |-> NoStats,
     forecast |-> [next_year |-> Null, predicted_value |-> Null], reports |-> {}]

\* The outcome of answer: what it returned or raised, with the table it cached, the
\* files it wrote, the collaborators it called and what forecast_next_year returned
Outcome(kind, error, available, context, table, files, calls, returned) ==
    [kind |-> kind, error |-> error, available |-> available, context |-> context,
     table |-> table, files |-> files, calls |-> calls, returned |-> returned]

NoTable == [cached |-> FALSE, rows |-> <<>>]
Cached(rows) == [cached |-> TRUE, rows |-> rows]

\* float(pred) if pred else None: a prediction of 0 is falsy
PredictedValue(fc) ==
    IF fc.ok /\ fc.predicted.n # 0 THEN fc.predicted ELSE Null

\* The context of answer (agent.py:177-192) from the yearly table with its anomaly
\* flags, the valid years and the forecast
Context(key, unit, valid_years, kpis, stats, fc) ==
    [indicator_key |-> key, unit |-> unit, years |-> valid_years, kpis |-> kpis,
     narratives |-> {valid_years[k] : k \in 1..Len(valid_years)},
     anomalies |-> Flagged(kpis),
     anomaly_summary |-> stats,
     forecast |-> [next_year |-> IF fc.ok THEN Num(fc.next_year) ELSE Null,
                   predicted_value |-> PredictedValue(fc)],
     reports |-> ReportFiles(key)]

\* yearly["anomaly"] = detect_anomalies(yearly["total_value"]): the yearly rows with
\* their flags
WithAnomaly(yearly_, anomaly) ==
    [i \in 1..Len(yearly_) |->
        [Year |-> yearly_[i].Year, total_value |-> yearly_[i].total_value,
         change_abs |-> yearly_[i].change_abs,
         change_pct |-> yearly_[i].change_pct, anomaly |-> anomaly[i]]]

\* A copy that writes the CSV and PDF files before it compares the years
answer_years_writing_first(key, rows, yearly_, years_available, valid_years, fc, failing) ==
    IF valid_years = <<>>
    THEN Outcome("years_not_found", "", years_available, NoContext, Cached(rows),
                 ReportFiles(key), {"load", "yearly", "write_csv", "write_pdf"}, NoForecast)
    ELSE IF \E k \in 1..Len(valid_years) : valid_years[k] \in failing
    THEN Outcome("raised", "NarrativeError", <<>>, NoContext, Cached(rows), {},
                 {"load", "yearly", "forecast", "narrative"}, fc)
    ELSE Outcome("context", "", <<>>,
                 Context(key, rows[1].Unit, valid_years,
                         WithAnomaly(yearly_,
                                     detect_anomalies([i \in 1..Len(yearly_) |->
                                                          Cell(yearly_[i].total_value)],
                                                      Ratio(3, 1))),
                         anomaly_stats(yearly_), fc),
                 Cached(rows), ReportFiles(key),
                 {"load", "yearly", "forecast", "narrative", "write_csv", "write_pdf",
                  "llm"}, fc)

\* answer from the year check on (agent.py:152-194): the years asked are compared
\* with the years of the yearly table, then the narratives are built (outside any
\* try block), the files written and the context assembled
answer_years(key, rows, yearly_, years_available, valid_years, fc, failing) ==
    IF valid_years = <<>>
    THEN Outcome("years_not_found", "", years_available, NoContext, Cached(rows), {},
                 {"load", "yearly"}, NoForecast)
    ELSE IF \E k \in 1..Len(valid_years) : valid_years[k] \in failing
    THEN Outcome("raised", "NarrativeError", <<>>, NoContext, Cached(rows), {},
                 {"load", "yearly", "forecast", "narrative"}, fc)
    ELSE Outcome("context", "", <<>>,
                 Context(key, rows[1].Unit, valid_years,
                         WithAnomaly(yearly_,
                                     detect_anomalies([i \in 1..Len(yearly_) |->
                                                          Cell(yearly_[i].total_value)],
                                                      Ratio(3, 1))),
                         anomaly_stats(yearly_), fc),
                 Cached(rows), ReportFiles(key),
                 {"load", "yearly", "forecast", "narrative", "write_csv", "write_pdf",
                  "llm"}, fc)

\* answer once the yearly table is computed (agent.py:145-159)
answer_yearly(key, q, rows, yearly_, failing) ==
    answer_years(key, rows, yearly_,
                 [i \in 1..Len(yearly_) |-> yearly_[i].Year],
                 Keep(detect_years(q, rows).years, {yearly_[i].Year : i \in 1..Len(yearly_)}),
                 forecast_next_year(yearly_), failing)

\* answer once the indicator is detected and the loader has returned or raised
\* (agent.py:136-143): df["Unit"].iloc[0] raises IndexError on a table with no row
answer_loaded(key, q, got, failing) ==
    IF key = None
    THEN Outcome("general", "", <<>>, NoContext, NoTable, {}, {"llm"}, NoForecast)
    ELSE IF got.kind # "table"
    THEN Outcome("raised", got.kind, <<>>, NoContext, NoTable, {}, {"load"}, NoForecast)
    ELSE IF got.table = <<>>
    THEN Outcome("raised", "IndexError", <<>>, NoContext, Cached(got.table), {}, {"load"},
                 NoForecast)
    ELSE answer_yearly(key, q, got.table, compute_yearly_totals(got.table), failing)

\* SustainabilityAgentPro.answer(query) over the data directory d; failing is the set
\* of years for which build_indicator_narrative raises
answer(q, d, failing) ==
    answer_loaded(detect_indicator(q), q, load_indicator(detect_indicator(q), d), failing)

----------------------------------------------------------------------------
(* The report builder *)

NoSection ==
    [ind |-> "", kind |-> "none", error |-> "", total_value |-> 0, is_anom |-> FALSE,
     narrative |-> FALSE, forecast |-> NoForecast]

\* row = yearly[yearly["Year"] == int(year)]: the total of the year, 0.0 when absent
TotalOf(yearly_, year) ==
    IF \E i \in 1..Len(yearly_) : yearly_[i].Year = year
    THEN yearly_[CHOOSE i \in 1..Len(yearly_) : yearly_[i].Year = year].total_value
    ELSE 0

\* The inline check of build_gri_pdf_report: the z-score of the year's total against
\* the mean and std(ddof=0) of the yearly totals, skipped when sigma is 0
InlineAnomaly(yearly_, total) ==
    LET s == [i \in 1..Len(yearly_) |-> Cell(yearly_[i].total_value)]
    IN  ScaledVariance(s) # 0 /\ ZAbove(total, s, Ratio(3, 1))

\* `if fy and fv`: the forecast page is drawn when both are truthy
ForecastDrawn(fc) ==
    IF fc.ok /\ fc.next_year # 0 /\ fc.predicted.n # 0 THEN fc ELSE NoForecast

\* The section of an indicator whose table has a row (report_generator.py:107-192)
section_yearly(ind, year, include_forecast, yearly_, failing) ==
    [ind |-> ind, kind |-> "section", error |-> "",
     total_value |-> TotalOf(yearly_, year),
     is_anom |-> InlineAnomaly(yearly_, TotalOf(yearly_, year)),
     narrative |-> year \notin failing,
     forecast |-> IF include_forecast THEN ForecastDrawn(forecast_next_year(yearly_))
                  ELSE NoForecast]

\* One pass of the loop once agent._get_data has returned or raised
\* (report_generator.py:95-106)
section_loaded(ind, year, include_forecast, got, failing) ==
    IF got.kind # "table"
    THEN [NoSection EXCEPT !.ind = ind, !.kind = "not_found", !.error = got.kind]
    ELSE IF got.table = <<>>
    THEN [NoSection EXCEPT !.ind = ind, !.kind = "raised", !.error = "IndexError"]
    ELSE section_yearly(ind, year, include_forecast, compute_yearly_totals(got.table),
                        failing)

\* One pass of the loop of build_gri_pdf_report over the indicators
section(ind, year, include_forecast, d, failing) ==
    section_loaded(ind, year, include_forecast, load_indicator(ind, d), failing)

\* The sections up to and including the first one that raised: first is the section
\* of the indicator at hand, rest the indicators after it
RECURSIVE sections(_, _, _, _, _)
sections_from(first, rest, year, include_forecast, d, failing) ==
    IF first.kind = "raised" THEN <<first>>
    ELSE <<first>> \o sections(rest, year, include_forecast, d, failing)

sections(indicators, year, include_forecast, d, failing) ==
    IF indicators = <<>> THEN <<>>
    ELSE sections_from(section(Head(indicators), year, include_forecast, d, failing),
                       Tail(indicators), year, include_forecast, d, failing)

\* The PDF with the sections drawn, or the exception of the section that raised;
\* tables holds the indicators whose table agent._get_data cached
report_of(done) ==
    IF done # <<>> /\ done[Len(done)].kind = "raised"
    THEN [kind |-> "raised", error |-> done[Len(done)].error, sections |-> <<>>,
          tables |-> {done[i].ind : i \in {k \in 1..Len(done) : done[k].kind # "not_found"}}]
    ELSE [kind |-> "pdf", error |-> "", sections |-> done,
          tables |-> {done[i].ind : i \in {k \in 1..Len(done) : done[k].kind # "not_found"}}]

\* build_gri_pdf_report(year, indicators, include_forecast) over the data directory d
build_gri_pdf_report(year, indicators, include_forecast, d, failing) ==
    report_of(sections(indicators, year, include_forecast, d, failing))

----------------------------------------------------------------------------
(* The workbooks the agent and the report builder read, and their calls *)

MaxWorkbooks == 1
MaxEntries == 3

WorkbookColumns == {AllColumns, {"Year", "Value"}}
IndicatorCells == {"energy", "water"}
EntryYears == {IntVal(2020), IntVal(2021), IntVal(2022)}
EntryValues == {100, 200}

\* The rows of a workbook of yearly figures
EntryRows(cols) ==
    [Year  : EntryYears,
     Month : IF "Month" \in cols THEN {IntVal(1)} ELSE {Blank},
     Value : EntryValues,
     Unit  : IF "Unit" \in cols THEN {"kWh"} ELSE {""},
     Indicator : IF "Indicator" \in cols THEN {"energy"} ELSE {NoIndicator}]

\* The rows of a workbook whose Indicator column is filled by hand
LabelledRows(cols) ==
    [Year  : EntryYears,
     Month : IF "Month" \in cols THEN {IntVal(1)} ELSE {Blank},
     Value : {100},
     Unit  : IF "Unit" \in cols THEN {"kWh"} ELSE {""},
     Indicator : IF "Indicator" \in cols THEN IndicatorCells ELSE {NoIndicator}]

Queries ==
    {<<"E", "n", "e", "r", "g", "y", " ", "u", "s", "e">>,
     <<"e", "n", "e", "r", "g", "y", " ", "2", "0", "2", "0">>,
     <<"e", "n", "e", "r", "g", "y", " ", "2", "0", "1", "9">>,
     <<"E", "n", "e", "r", "g", "y", " ", "2", "0", "2", "1", " ", "2", "0", "2", "0", " ", "2", "0", "1", "9">>,
     <<"h", "e", "l", "l", "o", " ", "2", "0", "2", "0">>}

\* The years for which build_indicator_narrative raises
NarrativeFailures == {{}, {2020}}

ReportYears == {2019, 2020}
ReportIndicators == <<"solar", "energy">>

NoReply ==
    [called |-> FALSE, query |-> <<>>, failing |-> {},
     out |-> Outcome("none", "", <<>>, NoContext, NoTable, {}, {}, NoForecast)]

NoReport ==
    [called |-> FALSE, year |-> 0, include_forecast |-> FALSE, failing |-> {},
     out |-> [kind |-> "none", error |-> "", sections |-> <<>>, tables |-> {}]]

NoCalls == loaded = NotLoaded /\ reply = NoReply /\ report = NoReport

\* A workbook appears in the data directory
AddWorkbook ==
    /\ NoCalls
    /\ Len(dir) < MaxWorkbooks
    /\ \E cols \in WorkbookColumns : dir' = Append(dir, [cols |-> cols, rows |-> <<>>])
    /\ UNCHANGED <<loaded, reply, report, cache, written>>

\* A yearly figure is written to the newest workbook
AddEntry ==
    /\ NoCalls
    /\ dir # <<>>
    /\ RowCount(dir) < MaxEntries
    /\ \E row \in EntryRows(dir[Len(dir)].cols) :
          dir' = [dir EXCEPT ![Len(dir)].rows = Append(@, row)]
    /\ UNCHANGED <<loaded, reply, report, cache, written>>

\* A row with a hand-filled Indicator cell is written to the newest workbook
AddLabelledRow ==
    /\ NoCalls
    /\ dir # <<>>
    /\ RowCount(dir) < MaxEntries
    /\ \E row \in LabelledRows(dir[Len(dir)].cols) :
          dir' = [dir EXCEPT ![Len(dir)].rows = Append(@, row)]
    /\ UNCHANGED <<loaded, reply, report, cache, written>>

\* SustainabilityAgentPro.answer(query)
Answer ==
    /\ NoCalls
    /\ \E q \in Queries, failing \in NarrativeFailures :
          \E out \in {answer(q, dir, failing)} :
              /\ reply' = [called |-> TRUE, query |-> q, failing |-> failing, out |-> out]
              /\ cache' = IF out.table.cached
                          THEN [cache EXCEPT ![detect_indicator(q)] = out.table]
                          ELSE cache
              /\ written' = written \cup out.files
    /\ UNCHANGED <<dir, loaded, report>>

\* build_gri_pdf_report(year, indicators, include_forecast=...)
BuildGriPdfReport ==
    /\ NoCalls
    /\ \E year \in ReportYears, include_forecast \in BOOLEAN, failing \in NarrativeFailures :
          \E out \in {build_gri_pdf_report(year, ReportIndicators, include_forecast, dir,
                                           failing)} :
              /\ report' = [called |-> TRUE, year |-> year,
                            include_forecast |-> include_forecast, failing |-> failing,
                            out |-> out]
              /\ cache' = [k \in INDICATORS |->
                              IF k \in out.tables THEN Cached(load_indicator(k, dir).table)
                              ELSE cache[k]]
    /\ UNCHANGED <<dir, loaded, reply, written>>

----------------------------------------------------------------------------
(* The queries typed to the agent, word by word *)

MaxWords == 3

\* The pieces a query is typed from; pieces follow each other without a separator
\* unless the piece " " is typed between them
QueryWords ==
    {<<"E", "n", "e", "r", "g", "y">>,
     <<"w", "a", "t", "e", "r">>,
     <<"w", "a", "s", "t", "e">>,
     <<"C", "O", "2">>,
     <<"3", "0">>,
     <<"5">>,
     <<"2", "0">>,
     <<"2", "0", "2", "1">>,
     <<"1">>,
     <<" ">>,
     <<"x">>}

\* The tables _detect_years is handed: answer calls it only on a table with a row
YearTables == {<<[Year |-> 2021]>>, <<[Year |-> 2022], [Year |-> 2021]>>}

NotDetected == [called |-> FALSE, text |-> <<>>, indicator |-> None, years |-> <<>>,
                latest |-> 0]

\* The text of the query: its pieces one after the other
RECURSIVE Text(_)
Text(words) == IF words = <<>> THEN <<>> ELSE Head(words) \o Text(Tail(words))

\* The user types one more piece of the query
TypeWord ==
    /\ ~detected.called
    /\ Len(query) < MaxWords
    /\ \E w \in QueryWords : query' = Append(query, w)
    /\ UNCHANGED detected

\* key = self._detect_indicator(query); years_req = self._detect_years(query, df)
Detect ==
    /\ ~detected.called
    /\ \E rows \in YearTables :
          detected' = [called |-> TRUE, text |-> Text(query),
                       indicator |-> detect_indicator(Text(query)),
                       years |-> detect_years(Text(query), rows).years,
                       latest |-> MaxYear(rows)]
    /\ UNCHANGED query

----------------------------------------------------------------------------
(* agent._get_data and the cache, with the data files changing between calls *)

CacheKeys == {"energy", "water"}

NotFetched == [called |-> FALSE, tick |-> FALSE, key |-> "", out |-> NotLoaded]

\* The entry of the key is served when there is one; the files are read only on a miss
get_data_cache_first(key, d, c) ==
    IF c[key].cached
    THEN [out |-> [load_indicator(key, d) EXCEPT !.kind = "table", !.table = c[key].rows],
          cache |-> c]
    ELSE [out |-> load_indicator(key, d),
          cache |-> IF load_indicator(key, d).kind = "table"
                    THEN [c EXCEPT ![key] = Cached(load_indicator(key, d).table)]
                    ELSE c]

\* SustainabilityAgentPro._get_data(key) with the cache c: the loader is called
\* whatever the cache holds, its table stored under the key and returned; when the
\* loader raises nothing is stored
get_data(key, d, c) ==
    [out |-> load_indicator(key, d),
     cache |-> IF load_indicator(key, d).kind = "table"
               THEN [c EXCEPT ![key] = Cached(load_indicator(key, d).table)]
               ELSE c]

\* A data file changes: a row is appended to the workbook
ChangeFile ==
    /\ dir # <<>>
    /\ RowCount(dir) < MaxEntries
    /\ \E row \in EntryRows(dir[Len(dir)].cols) :
          /\ row.Value = 100
          /\ row.Year \in {IntVal(2020), IntVal(2021)}
          /\ dir' = [dir EXCEPT ![Len(dir)].rows = Append(@, row)]
    /\ UNCHANGED <<loaded, cache, fetched>>

\* The data files are removed from the directory
RemoveFiles ==
    /\ dir # <<>>
    /\ dir' = <<>>
    /\ UNCHANGED <<loaded, cache, fetched>>

\* agent._cache = {}: the dashboard's refresh button, or a detected file change
ClearCache ==
    /\ cache' = [k \in INDICATORS |-> NoTable]
    /\ UNCHANGED <<dir, loaded, fetched>>

\* df = agent._get_data(key)
GetData ==
    /\ \E key \in CacheKeys :
          \E got \in {get_data(key, dir, cache)} :
              /\ fetched' = [called |-> TRUE, tick |-> ~fetched.tick, key |-> key,
                             out |-> got.out]
              /\ cache' = got.cache
    /\ UNCHANGED <<dir, loaded>>

----------------------------------------------------------------------------
(* The dashboard's file watcher *)

MaxClock == 3

\* The files that come and go in the data directory
FileNames == {<<"a", ".", "x", "l", "s", "x">>, <<"b", ".", "x", "l", "s">>, <<"n", ".", "t", "x", "t">>}

\* glob("*" + suffix): the name ends with the suffix
EndsWith(name, suffix) ==
    /\ Len(name) >= Len(suffix)
    /\ SubSeq(name, Len(name) - Len(suffix) + 1, Len(name)) = suffix

\* scan_data_files(): sorted(DATA_DIR.glob("*.xlsx"))
scan_data_files(files) ==
    {f \in FileNames : files[f] # 0 /\ EndsWith(f, <<".", "x", "l", "s", "x">>)}

\* discover_files(): glob("*.xlsx") and glob("*.xls"), the files the loader reads
discover_files(files) ==
    {f \in FileNames : files[f] # 0 /\ (EndsWith(f, <<".", "x", "l", "s", "x">>) \/ EndsWith(f, <<".", "x", "l", "s">>))}

NothingSince == [seen |-> [f \in FileNames |-> 0], refreshed |-> FALSE]
NotScanned ==
    [called |-> FALSE, changed |-> FALSE, timestamps |-> [f \in FileNames |-> 0],
     before |-> [f \in FileNames |-> 0], files |-> [f \in FileNames |-> 0],
     refreshed |-> FALSE]

\* A watcher that never looks for deleted files
detect_file_changes_no_deletions(files, timestamps) ==
    [changed |-> \E f \in scan_data_files(files) : timestamps[f] # files[f],
     timestamps |-> [f \in FileNames |->
                        IF f \in scan_data_files(files) THEN files[f] ELSE timestamps[f]]]

\* detect_file_changes(): a scanned file without an entry or with another time is
\* recorded and counts as a change; an entry whose file is no longer scanned is
\* dropped and counts as a change
detect_file_changes(files, timestamps) ==
    [changed |-> \/ \E f \in scan_data_files(files) : timestamps[f] # files[f]
                 \/ \E f \in FileNames : timestamps[f] # 0 /\ f \notin scan_data_files(files),
     timestamps |-> [f \in FileNames |->
                        IF f \in scan_data_files(files) THEN files[f] ELSE 0]]

\* A file is put into the data directory
PutFile ==
    /\ clock < MaxClock
    /\ \E f \in FileNames :
          /\ disk[f] = 0
          /\ disk' = [disk EXCEPT ![f] = clock + 1]
    /\ clock' = clock + 1
    /\ UNCHANGED <<file_timestamps, since, scan>>

\* A file of the data directory is written again
ModifyFile ==
    /\ clock < MaxClock
    /\ \E f \in FileNames :
          /\ disk[f] # 0
          /\ disk' = [disk EXCEPT ![f] = clock + 1]
    /\ clock' = clock + 1
    /\ UNCHANGED <<file_timestamps, since, scan>>

\* A file is deleted from the data directory
DeleteFile ==
    /\ \E f \in FileNames :
          /\ disk[f] # 0
          /\ disk' = [disk EXCEPT ![f] = 0]
    /\ UNCHANGED <<clock, file_timestamps, since, scan>>

\* The refresh button: st.session_state.file_timestamps = {}
ManualRefresh ==
    /\ file_timestamps' = [f \in FileNames |-> 0]
    /\ since' = [since EXCEPT !.refreshed = TRUE]
    /\ UNCHANGED <<disk, clock, scan>>

\* if detect_file_changes(): ...
DetectFileChanges ==
    /\ \E got \in {detect_file_changes(disk, file_timestamps)} :
          /\ scan' = [called |-> TRUE, changed |-> got.changed,
                      timestamps |-> got.timestamps, before |-> since.seen,
                      files |-> disk, refreshed |-> since.refreshed]
          /\ file_timestamps' = got.timestamps
    /\ since' = [seen |-> disk, refreshed |-> FALSE]
    /\ UNCHANGED <<disk, clock>>

----------------------------------------------------------------------------
(* The copies of the anomaly check on the yearly yearlySeries *)

MaxYears == 11

MaxUnusual == 2

FirstYear == 2020
UsualTotal == 200
YearlyTotals == {UsualTotal, 300}

\* The number of years whose total is not the usual one
Unusual(yearly_) ==
    Cardinality({i \in 1..Len(yearly_) : yearly_[i].total_value # UsualTotal})

\* yearly["total_value"]
TotalValues(yearly_) == [i \in 1..Len(yearly_) |-> Cell(yearly_[i].total_value)]

\* The dashboard's detect_anomalies: the same steps as the agent's, with mean and
\* sigma passed through float()
detect_anomalies_dashboard(series_, threshold) ==
    LET s == dropna(series_)
    IN  IF s = <<>> \/ ScaledVariance(s) = 0
        THEN [i \in 1..Len(series_) |-> FALSE]
        ELSE [i \in 1..Len(series_) |->
                IF series_[i].na THEN FALSE ELSE ZAbove(series_[i].v, s, threshold)]

\* The report page's detect_anomalies_simple
detect_anomalies_simple(series_, threshold) ==
    LET s == dropna(series_)
    IN  IF s = <<>> \/ ScaledVariance(s) = 0
        THEN [i \in 1..Len(series_) |-> FALSE]
        ELSE [i \in 1..Len(series_) |->
                IF series_[i].na THEN FALSE ELSE ZAbove(series_[i].v, s, threshold)]

NotCompared ==
    [called |-> FALSE, year |-> 0, agent |-> <<>>, dashboard |-> <<>>, simple |-> <<>>,
     inline |-> FALSE]

\* A year with its total is appended to the yearly series
AddYearlyTotal ==
    /\ ~compared.called
    /\ Len(yearlySeries) < MaxYears
    /\ \E v \in YearlyTotals :
          /\ v # UsualTotal => Unusual(yearlySeries) < MaxUnusual
          /\ yearlySeries' = Append(yearlySeries, [Year |-> FirstYear + Len(yearlySeries),
                                                  total_value |-> v])
    /\ UNCHANGED compared

\* yearly["anomaly"] of the agent, the dashboard and the report page (default
\* threshold 3.0), and the check of build_gri_pdf_report for the requested year
CompareCopies ==
    /\ ~compared.called
    /\ yearlySeries # <<>>
    /\ \E year \in (FirstYear - 1)..(FirstYear + Len(yearlySeries) - 1) :
          compared' = [called |-> TRUE, year |-> year,
                       agent |-> detect_anomalies(TotalValues(yearlySeries), Ratio(3, 1)),
                       dashboard |-> detect_anomalies_dashboard(TotalValues(yearlySeries),
                                                                Ratio(3, 1)),
                       simple |-> detect_anomalies_simple(TotalValues(yearlySeries), Ratio(3, 1)),
                       inline |-> InlineAnomaly(yearlySeries, TotalOf(yearlySeries, year))]
    /\ UNCHANGED yearlySeries

----------------------------------------------------------------------------
(* Specifications *)

\* normalize_month on one input
InitMonth ==
    /\ monthIn \in MonthInputs
    /\ monthOut = NoResult
    /\ monthVia = "none"
    /\ monthAgain = NoResult
    /\ dir = <<>>
    /\ loaded = NotLoaded
    /\ df = <<>>
    /\ yearly = NoYearly
    /\ prevYearly = NoYearly
    /\ series = <<>>
    /\ flags = NoFlags
    /\ reply = NoReply
    /\ report = NoReport
    /\ cache = [k \in INDICATORS |-> NoTable]
    /\ written = {}
    /\ query = <<>>
    /\ detected = NotDetected
    /\ fetched = NotFetched
    /\ disk = [f \in FileNames |-> 0]
    /\ clock = 0
    /\ file_timestamps = [f \in FileNames |-> 0]
    /\ since = NothingSince
    /\ scan = NotScanned
    /\ yearlySeries = <<>>
    /\ compared = NotCompared

NextMonth ==
    \/ NormalizeMonth /\ UNCHANGED <<copyVars, watchVars, cacheVars, queryVars, loadVars, yearlyVars, anomalyVars, agentVars>>
    \/ NormalizeMonthExplorer /\ UNCHANGED <<copyVars, watchVars, cacheVars, queryVars, loadVars, yearlyVars, anomalyVars, agentVars>>
    \/ NormalizeAgain /\ UNCHANGED <<copyVars, watchVars, cacheVars, queryVars, loadVars, yearlyVars, anomalyVars, agentVars>>

SpecMonth == InitMonth /\ [][NextMonth]_vars

\* The data directory is filled, then an indicator is loaded
Init ==
    /\ monthIn = IntVal(1)
    /\ monthOut = NoResult
    /\ monthVia = "none"
    /\ monthAgain = NoResult
    /\ dir = <<>>
    /\ loaded = NotLoaded
    /\ df = <<>>
    /\ yearly = NoYearly
    /\ prevYearly = NoYearly
    /\ series = <<>>
    /\ flags = NoFlags
    /\ reply = NoReply
    /\ report = NoReport
    /\ cache = [k \in INDICATORS |-> NoTable]
    /\ written = {}
    /\ query = <<>>
    /\ detected = NotDetected
    /\ fetched = NotFetched
    /\ disk = [f \in FileNames |-> 0]
    /\ clock = 0
    /\ file_timestamps = [f \in FileNames |-> 0]
    /\ since = NothingSince
    /\ scan = NotScanned
    /\ yearlySeries = <<>>
    /\ compared = NotCompared

Next ==
    \/ AddFile /\ UNCHANGED <<copyVars, watchVars, cacheVars, queryVars, monthVars, yearlyVars, anomalyVars, agentVars>>
    \/ AddRow /\ UNCHANGED <<copyVars, watchVars, cacheVars, queryVars, monthVars, yearlyVars, anomalyVars, agentVars>>
    \/ LoadIndicator /\ UNCHANGED <<copyVars, watchVars, cacheVars, queryVars, monthVars, yearlyVars, anomalyVars, agentVars>>
    \/ LoadIndicatorExplorer /\ UNCHANGED <<copyVars, watchVars, cacheVars, queryVars, monthVars, yearlyVars, anomalyVars, agentVars>>

Spec == Init /\ [][Next]_vars

\* An indicator table is filled, aggregated, reordered and aggregated again
InitYearly ==
    /\ monthIn = IntVal(1)
    /\ monthOut = NoResult
    /\ monthVia = "none"
    /\ monthAgain = NoResult
    /\ dir = <<>>
    /\ loaded = NotLoaded
    /\ df = <<>>
    /\ yearly = NoYearly
    /\ prevYearly = NoYearly
    /\ series = <<>>
    /\ flags = NoFlags
    /\ reply = NoReply
    /\ report = NoReport
    /\ cache = [k \in INDICATORS |-> NoTable]
    /\ written = {}
    /\ query = <<>>
    /\ detected = NotDetected
    /\ fetched = NotFetched
    /\ disk = [f \in FileNames |-> 0]
    /\ clock = 0
    /\ file_timestamps = [f \in FileNames |-> 0]
    /\ since = NothingSince
    /\ scan = NotScanned
    /\ yearlySeries = <<>>
    /\ compared = NotCompared

NextYearly ==
    \/ AppendRecord /\ UNCHANGED <<copyVars, watchVars, cacheVars, queryVars, monthVars, loadVars, anomalyVars, agentVars>>
    \/ ComputeYearly /\ UNCHANGED <<copyVars, watchVars, cacheVars, queryVars, monthVars, loadVars, anomalyVars, agentVars>>
    \/ ComputeYearlyFallback /\ UNCHANGED <<copyVars, watchVars, cacheVars, queryVars, monthVars, loadVars, anomalyVars, agentVars>>
    \/ ReorderRows /\ UNCHANGED <<copyVars, watchVars, cacheVars, queryVars, monthVars, loadVars, anomalyVars, agentVars>>

SpecYearly == InitYearly /\ [][NextYearly]_vars

\* A series is filled and checked for anomalies
InitAnomaly ==
    /\ monthIn = IntVal(1)
    /\ monthOut = NoResult
    /\ monthVia = "none"
    /\ monthAgain = NoResult
    /\ dir = <<>>
    /\ loaded = NotLoaded
    /\ df = <<>>
    /\ yearly = NoYearly
    /\ prevYearly = NoYearly
    /\ series = <<>>
    /\ flags = NoFlags
    /\ reply = NoReply
    /\ report = NoReport
    /\ cache = [k \in INDICATORS |-> NoTable]
    /\ written = {}
    /\ query = <<>>
    /\ detected = NotDetected
    /\ fetched = NotFetched
    /\ disk = [f \in FileNames |-> 0]
    /\ clock = 0
    /\ file_timestamps = [f \in FileNames |-> 0]
    /\ since = NothingSince
    /\ scan = NotScanned
    /\ yearlySeries = <<>>
    /\ compared = NotCompared

NextAnomaly ==
    \/ AppendValue /\ UNCHANGED <<copyVars, watchVars, cacheVars, queryVars, monthVars, loadVars, yearlyVars, agentVars>>
    \/ DetectAnomalies /\ UNCHANGED <<copyVars, watchVars, cacheVars, queryVars, monthVars, loadVars, yearlyVars, agentVars>>

SpecAnomaly == InitAnomaly /\ [][NextAnomaly]_vars

\* The data directory is empty or holds one workbook; the workbook is filled, then
\* the agent answers a query or the report is built
InitAgent ==
    /\ monthIn = IntVal(1)
    /\ monthOut = NoResult
    /\ monthVia = "none"
    /\ monthAgain = NoResult
    /\ dir \in {<<>>} \cup {<<[cols |-> cols, rows |-> <<>>]>> : cols \in WorkbookColumns}
    /\ loaded = NotLoaded
    /\ df = <<>>
    /\ yearly = NoYearly
    /\ prevYearly = NoYearly
    /\ series = <<>>
    /\ flags = NoFlags
    /\ reply = NoReply
    /\ report = NoReport
    /\ cache = [k \in INDICATORS |-> NoTable]
    /\ written = {}
    /\ query = <<>>
    /\ detected = NotDetected
    /\ fetched = NotFetched
    /\ disk = [f \in FileNames |-> 0]
    /\ clock = 0
    /\ file_timestamps = [f \in FileNames |-> 0]
    /\ since = NothingSince
    /\ scan = NotScanned
    /\ yearlySeries = <<>>
    /\ compared = NotCompared

NextAgent ==
    \/ AddEntry /\ UNCHANGED <<copyVars, watchVars, cacheVars, queryVars, monthVars, yearlyVars, anomalyVars>>
    \/ Answer /\ UNCHANGED <<copyVars, watchVars, cacheVars, queryVars, monthVars, yearlyVars, anomalyVars>>
    \/ BuildGriPdfReport /\ UNCHANGED <<copyVars, watchVars, cacheVars, queryVars, monthVars, yearlyVars, anomalyVars>>

SpecAgent == InitAgent /\ [][NextAgent]_vars

\* Workbooks with hand-filled Indicator cells are filled, then an indicator is loaded
InitLabels ==
    /\ monthIn = IntVal(1)
    /\ monthOut = NoResult
    /\ monthVia = "none"
    /\ monthAgain = NoResult
    /\ dir = <<>>
    /\ loaded = NotLoaded
    /\ df = <<>>
    /\ yearly = NoYearly
    /\ prevYearly = NoYearly
    /\ series = <<>>
    /\ flags = NoFlags
    /\ reply = NoReply
    /\ report = NoReport
    /\ cache = [k \in INDICATORS |-> NoTable]
    /\ written = {}
    /\ query = <<>>
    /\ detected = NotDetected
    /\ fetched = NotFetched
    /\ disk = [f \in FileNames |-> 0]
    /\ clock = 0
    /\ file_timestamps = [f \in FileNames |-> 0]
    /\ since = NothingSince
    /\ scan = NotScanned
    /\ yearlySeries = <<>>
    /\ compared = NotCompared

NextLabels ==
    \/ AddWorkbook /\ UNCHANGED <<copyVars, watchVars, cacheVars, queryVars, monthVars, yearlyVars, anomalyVars>>
    \/ AddLabelledRow /\ UNCHANGED <<copyVars, watchVars, cacheVars, queryVars, monthVars, yearlyVars, anomalyVars>>
    \/ LoadIndicator /\ UNCHANGED <<copyVars, watchVars, cacheVars, queryVars, monthVars, yearlyVars, anomalyVars, agentVars>>
    \/ LoadIndicatorExplorer /\ UNCHANGED <<copyVars, watchVars, cacheVars, queryVars, monthVars, yearlyVars, anomalyVars, agentVars>>

SpecLabels == InitLabels /\ [][NextLabels]_vars

\* A query is typed, then its indicator and its years are detected
InitQuery ==
    /\ monthIn = IntVal(1)
    /\ monthOut = NoResult
    /\ monthVia = "none"
    /\ monthAgain = NoResult
    /\ dir = <<>>
    /\ loaded = NotLoaded
    /\ df = <<>>
    /\ yearly = NoYearly
    /\ prevYearly = NoYearly
    /\ series = <<>>
    /\ flags = NoFlags
    /\ reply = NoReply
    /\ report = NoReport
    /\ cache = [k \in INDICATORS |-> NoTable]
    /\ written = {}
    /\ query = <<>>
    /\ detected = NotDetected
    /\ fetched = NotFetched
    /\ disk = [f \in FileNames |-> 0]
    /\ clock = 0
    /\ file_timestamps = [f \in FileNames |-> 0]
    /\ since = NothingSince
    /\ scan = NotScanned
    /\ yearlySeries = <<>>
    /\ compared = NotCompared

NextQuery ==
    \/ TypeWord /\ UNCHANGED <<copyVars, watchVars, cacheVars, monthVars, loadVars, yearlyVars, anomalyVars, agentVars>>
    \/ Detect /\ UNCHANGED <<copyVars, watchVars, cacheVars, monthVars, loadVars, yearlyVars, anomalyVars, agentVars>>

SpecQuery == InitQuery /\ [][NextQuery]_vars

\* The data files change, the cache is cleared and tables are fetched, in any order
InitCache ==
    /\ monthIn = IntVal(1)
    /\ monthOut = NoResult
    /\ monthVia = "none"
    /\ monthAgain = NoResult
    /\ dir \in {<<>>} \cup {<<[cols |-> cols, rows |-> <<>>]>> : cols \in WorkbookColumns}
    /\ loaded = NotLoaded
    /\ df = <<>>
    /\ yearly = NoYearly
    /\ prevYearly = NoYearly
    /\ series = <<>>
    /\ flags = NoFlags
    /\ reply = NoReply
    /\ report = NoReport
    /\ cache = [k \in INDICATORS |-> NoTable]
    /\ written = {}
    /\ query = <<>>
    /\ detected = NotDetected
    /\ fetched = NotFetched
    /\ disk = [f \in FileNames |-> 0]
    /\ clock = 0
    /\ file_timestamps = [f \in FileNames |-> 0]
    /\ since = NothingSince
    /\ scan = NotScanned
    /\ yearlySeries = <<>>
    /\ compared = NotCompared

NextCache ==
    \/ ChangeFile /\ UNCHANGED <<copyVars, watchVars, queryVars, monthVars, yearlyVars, anomalyVars, reply, report, written>>
    \/ RemoveFiles /\ UNCHANGED <<copyVars, watchVars, queryVars, monthVars, yearlyVars, anomalyVars, reply, report, written>>
    \/ ClearCache /\ UNCHANGED <<copyVars, watchVars, queryVars, monthVars, yearlyVars, anomalyVars, reply, report, written>>
    \/ GetData /\ UNCHANGED <<copyVars, watchVars, queryVars, monthVars, yearlyVars, anomalyVars, reply, report, written>>

SpecCache == InitCache /\ [][NextCache]_vars

\* A yearly series grows year by year, then it is checked at the default threshold
InitOutlier ==
    /\ monthIn = IntVal(1)
    /\ monthOut = NoResult
    /\ monthVia = "none"
    /\ monthAgain = NoResult
    /\ dir = <<>>
    /\ loaded = NotLoaded
    /\ df = <<>>
    /\ yearly = NoYearly
    /\ prevYearly = NoYearly
    /\ series = <<>>
    /\ flags = NoFlags
    /\ reply = NoReply
    /\ report = NoReport
    /\ cache = [k \in INDICATORS |-> NoTable]
    /\ written = {}
    /\ query = <<>>
    /\ detected = NotDetected
    /\ fetched = NotFetched
    /\ disk = [f \in FileNames |-> 0]
    /\ clock = 0
    /\ file_timestamps = [f \in FileNames |-> 0]
    /\ since = NothingSince
    /\ scan = NotScanned
    /\ yearlySeries = <<>>
    /\ compared = NotCompared

NextOutlier ==
    \/ AppendReading /\ UNCHANGED <<copyVars, watchVars, cacheVars, queryVars, monthVars, loadVars, yearlyVars, agentVars>>
    \/ DetectOutliers /\ UNCHANGED <<copyVars, watchVars, cacheVars, queryVars, monthVars, loadVars, yearlyVars, agentVars>>

SpecOutlier == InitOutlier /\ [][NextOutlier]_vars

\* Files come, change and go; the dashboard scans them and is refreshed by hand
InitWatch ==
    /\ monthIn = IntVal(1)
    /\ monthOut = NoResult
    /\ monthVia = "none"
    /\ monthAgain = NoResult
    /\ dir = <<>>
    /\ loaded = NotLoaded
    /\ df = <<>>
    /\ yearly = NoYearly
    /\ prevYearly = NoYearly
    /\ series = <<>>
    /\ flags = NoFlags
    /\ reply = NoReply
    /\ report = NoReport
    /\ cache = [k \in INDICATORS |-> NoTable]
    /\ written = {}
    /\ query = <<>>
    /\ detected = NotDetected
    /\ fetched = NotFetched
    /\ disk = [f \in FileNames |-> 0]
    /\ clock = 0
    /\ file_timestamps = [f \in FileNames |-> 0]
    /\ since = NothingSince
    /\ scan = NotScanned
    /\ yearlySeries = <<>>
    /\ compared = NotCompared

NextWatch ==
    \/ PutFile /\ UNCHANGED <<copyVars, cacheVars, queryVars, monthVars, loadVars, yearlyVars, anomalyVars, agentVars>>
    \/ ModifyFile /\ UNCHANGED <<copyVars, cacheVars, queryVars, monthVars, loadVars, yearlyVars, anomalyVars, agentVars>>
    \/ DeleteFile /\ UNCHANGED <<copyVars, cacheVars, queryVars, monthVars, loadVars, yearlyVars, anomalyVars, agentVars>>
    \/ ManualRefresh /\ UNCHANGED <<copyVars, cacheVars, queryVars, monthVars, loadVars, yearlyVars, anomalyVars, agentVars>>
    \/ DetectFileChanges /\ UNCHANGED <<copyVars, cacheVars, queryVars, monthVars, loadVars, yearlyVars, anomalyVars, agentVars>>

SpecWatch == InitWatch /\ [][NextWatch]_vars

\* A yearly series grows and the copies of the anomaly check are run on it
InitCopies ==
    /\ monthIn = IntVal(1)
    /\ monthOut = NoResult
    /\ monthVia = "none"
    /\ monthAgain = NoResult
    /\ dir = <<>>
    /\ loaded = NotLoaded
    /\ df = <<>>
    /\ yearly = NoYearly
    /\ prevYearly = NoYearly
    /\ series = <<>>
    /\ flags = NoFlags
    /\ reply = NoReply
    /\ report = NoReport
    /\ cache = [k \in INDICATORS |-> NoTable]
    /\ written = {}
    /\ query = <<>>
    /\ detected = NotDetected
    /\ fetched = NotFetched
    /\ disk = [f \in FileNames |-> 0]
    /\ clock = 0
    /\ file_timestamps = [f \in FileNames |-> 0]
    /\ since = NothingSince
    /\ scan = NotScanned
    /\ yearlySeries = <<>>
    /\ compared = NotCompared

NextCopies ==
    \/ AddYearlyTotal /\ UNCHANGED <<watchVars, cacheVars, queryVars, monthVars, loadVars, yearlyVars, anomalyVars, agentVars>>
    \/ CompareCopies /\ UNCHANGED <<watchVars, cacheVars, queryVars, monthVars, loadVars, yearlyVars, anomalyVars, agentVars>>

SpecCopies == InitCopies /\ [][NextCopies]_vars


----------------------------------------------------------------------------
(* Month normalisation: claims *)

\* C4: normalize_month (either copy) returns the month number, an integer in
\* 1..12, for every accepted spelling of a month, raises ValueError for every
\* other input, and returns nothing else.
C4_normalize_month_range ==
    monthVia # "none" =>
        /\ monthOut.kind \in {"int", "ValueError"}
        /\ monthOut.kind = "int" => monthOut.month \in 1..12
        /\ \A m \in 1..12 : monthIn \in Spellings(m) => monthOut = Returned(m)
        /\ monthIn \in Rejected => monthOut.kind = "ValueError"

\* C4 witness: the text "13" was normalised and raised
C4_witness ==
    /\ monthVia = "agent"
    /\ monthIn = StrVal(<<"1", "3">>)
    /\ monthOut.kind = "ValueError"

----------------------------------------------------------------------------
(* Indicator loader: claims *)

\* The columns each copy of the loader demands
RequiredBy(via) == IF via = "agent" THEN {"Year", "Value"} ELSE AllColumns

\* What a cell stands for, read off the cell itself
YearOf(cell) == IF cell = IntVal(2020) THEN 2020 ELSE 2021
MonthOf(cell) == CHOOSE m \in 1..12 : cell \in Spellings(m)

MonthsValid(f) ==
    "Month" \in f.cols => \A j \in 1..Len(f.rows) : f.rows[j].Month \in Accepted

\* The <<file, sheet row>> of every row in the directory
Origins == UNION {{<<i, j>> : j \in 1..Len(dir[i].rows)} : i \in 1..Len(dir)}

RECURSIVE ValueSum(_, _)
ValueSum(os, year) ==
    IF os = {} THEN 0
    ELSE LET o == CHOOSE x \in os : TRUE
             row == dir[o[1]].rows[o[2]]
         IN  (IF YearOf(row.Year) = year THEN row.Value ELSE 0) + ValueSum(os \ {o}, year)

\* C1: when the sheet of one file lacks a required column, load_indicator returns
\* no table; when every other file is valid it raises the missing-columns error
\* naming that file and exactly the columns it lacks, wherever the file stands.
C1_schema_fail_fast ==
    (loaded.kind # "none" /\ loaded.key \in INDICATORS) =>
        \A i \in 1..Len(dir) :
            RequiredBy(loaded.via) \ dir[i].cols # {} =>
                /\ loaded.kind \in ErrorKinds
                /\ loaded.table = <<>>
                /\ (\A k \in (1..Len(dir)) \ {i} :
                        RequiredBy(loaded.via) \subseteq dir[k].cols /\ MonthsValid(dir[k]))
                   => /\ loaded.kind = "MissingColumns"
                      /\ loaded.file = i
                      /\ loaded.missing = RequiredBy(loaded.via) \ dir[i].cols

\* C1 witness: the second of two files lacks Value, the first is valid and has two rows
C1_witness ==
    /\ loaded.via = "agent"
    /\ Len(dir) = 2
    /\ dir[1].cols = AllColumns /\ Len(dir[1].rows) = 2 /\ MonthsValid(dir[1])
    /\ "Value" \notin dir[2].cols
    /\ loaded.kind = "MissingColumns" /\ loaded.file = 2 /\ loaded.missing = {"Value"}

\* C2: a successful load returns every row of every file exactly once (as many
\* rows as the files hold together, each sheet row present with its values), so
\* the yearly totals of the table are the sums over all files.
C2_row_union ==
    loaded.kind = "table" =>
        LET t == loaded.table
            g == groupby_sum(t)
        IN  /\ Len(t) = RowCount(dir)
            /\ \A o \in Origins :
                  \E k \in 1..Len(t) :
                      /\ t[k].origin = o
                      /\ t[k].Year = YearOf(dir[o[1]].rows[o[2]].Year)
                      /\ t[k].Value = dir[o[1]].rows[o[2]].Value
                      /\ "Month" \in dir[o[1]].cols =>
                            t[k].Month = MonthOf(dir[o[1]].rows[o[2]].Month)
            /\ \A k \in 1..Len(g) : g[k].total_value = ValueSum(Origins, g[k].Year)
            /\ {g[k].Year : k \in 1..Len(g)} =
                  {YearOf(dir[o[1]].rows[o[2]].Year) : o \in Origins}

\* C2 witness: two files give 50 and 70 for 2021 and the yearly total is 120
C2_witness ==
    /\ loaded.kind = "table" /\ loaded.via = "agent"
    /\ Len(dir) = 2 /\ Len(dir[1].rows) = 1 /\ Len(dir[2].rows) = 1
    /\ YearOf(dir[1].rows[1].Year) = 2021 /\ dir[1].rows[1].Value = 50
    /\ YearOf(dir[2].rows[1].Year) = 2021 /\ dir[2].rows[1].Value = 70
    /\ groupby_sum(loaded.table) = <<[Year |-> 2021, total_value |-> 120]>>

OriginBefore(a, b) == a[1] < b[1] \/ (a[1] = b[1] /\ a[2] < b[2])

SortedStable(t) ==
    \A a, b \in 1..Len(t) :
        a < b =>
            /\ t[a].Year <= t[b].Year
            /\ t[a].Year = t[b].Year => t[a].Month <= t[b].Month
            /\ (t[a].Year = t[b].Year /\ t[a].Month = t[b].Month)
                  => OriginBefore(t[a].origin, t[b].origin)

\* C3: the table load_indicator returns is sorted ascending by (Year, Month), and
\* rows of equal (Year, Month) keep the order in which they were read (file
\* order, then sheet order).
C3_sorted_stable == loaded.kind = "table" => SortedStable(loaded.table)

\* C3, the loader of src/ai_agent/data_loader.py alone
C3_agent_sorted_stable ==
    (loaded.kind = "table" /\ loaded.via = "agent") => SortedStable(loaded.table)

\* C5: a directory whose sheets all have Year and Value (and only valid months)
\* loads; the rows of a sheet without Month get Month 1, those of a sheet without
\* Unit get the placeholder unit, and Year is an integer.
C5_required_year_value ==
    (/\ loaded.kind # "none" /\ loaded.key \in INDICATORS /\ dir # <<>>
     /\ \A i \in 1..Len(dir) : {"Year", "Value"} \subseteq dir[i].cols /\ MonthsValid(dir[i]))
    => /\ loaded.kind = "table"
       /\ \A k \in 1..Len(loaded.table) :
             LET r == loaded.table[k]
                 f == dir[r.origin[1]]
             IN  /\ "Month" \notin f.cols => r.Month = 1
                 /\ "Unit" \notin f.cols => r.Unit = "unit"
                 /\ r.Year = YearOf(f.rows[r.origin[2]].Year)

\* C5, the loader of src/ai_agent/data_loader.py alone
C5_agent_required_year_value == loaded.via = "agent" => C5_required_year_value

----------------------------------------------------------------------------
(* Yearly aggregation: claims *)

\* The sum of Value over a set of positions of df
RECURSIVE ValueOver(_)
ValueOver(ks) ==
    IF ks = {} THEN 0
    ELSE LET k == CHOOSE x \in ks : TRUE IN df[k].Value + ValueOver(ks \ {k})

YearsOf(rows) == {rows[k].Year : k \in 1..Len(rows)}

\* C6: the yearly aggregate (primary path and fallback) has exactly one row per
\* distinct Year of the table, in ascending Year order, each total_value the sum
\* of Value over the rows of that Year; an empty table gives an empty aggregate.
C6_one_row_per_year ==
    yearly.path # "none" =>
        LET r == yearly.rows
        IN  /\ YearsOf(r) = YearsOf(df)
            /\ Len(r) = Cardinality(YearsOf(df))
            /\ \A i, j \in 1..Len(r) : i < j => r[i].Year < r[j].Year
            /\ \A i \in 1..Len(r) :
                  r[i].total_value = ValueOver({k \in 1..Len(df) : df[k].Year = r[i].Year})
            /\ df = <<>> => r = <<>>

\* C6 witness: three records of two years, the later year first, were aggregated
C6_witness ==
    /\ yearly.path = "fallback"
    /\ Len(df) = 3 /\ df[1].Year = 2022 /\ df[2].Year = 2019 /\ df[3].Year = 2022
    /\ df[1].Value = 50 /\ df[3].Value = 70
    /\ Len(yearly.rows) = 2 /\ yearly.rows[2].total_value = 120

\* C7: change_pct of a row that follows a zero total is null (not infinite, not
\* 0), on the primary path and on the fallback; after a non-zero total it is
\* change_abs / previous total * 100.
C7_change_pct_null_after_zero ==
    yearly.path # "none" =>
        \A i \in 2..Len(yearly.rows) :
            LET prev == yearly.rows[i - 1].total_value
                cur == yearly.rows[i].total_value
            IN  /\ prev = 0 => yearly.rows[i].change_pct = Null
                /\ prev # 0 => yearly.rows[i].change_pct = Ratio((cur - prev) * 100, prev)

\* C7, the primary path alone
C7_primary_change_pct ==
    yearly.path = "primary" => C7_change_pct_null_after_zero

\* C8: change_abs of every row after the first is its total minus the total of
\* the row before it in the sorted sequence, whatever the gap between the years;
\* the first row has neither change_abs nor change_pct.
C8_change_abs_preceding_row ==
    yearly.path # "none" =>
        \A i \in 1..Len(yearly.rows) :
            IF i = 1
            THEN yearly.rows[i].change_abs = Null /\ yearly.rows[i].change_pct = Null
            ELSE /\ yearly.rows[i].change_abs.kind = "num"
                 /\ yearly.rows[i].change_abs.d = 1
                 /\ yearly.rows[i].change_abs.n =
                       yearly.rows[i].total_value - yearly.rows[i - 1].total_value

\* C8 witness: the years 2019, 2021, 2022 with distinct totals were aggregated
C8_witness ==
    /\ yearly.path = "fallback"
    /\ Len(yearly.rows) = 3
    /\ yearly.rows[1].total_value = 70 /\ yearly.rows[2].total_value = 50
    /\ yearly.rows[3].total_value = 0
    /\ yearly.rows[2].Year - yearly.rows[1].Year = 2
    /\ yearly.rows[2].change_abs.n = -20 /\ yearly.rows[3].change_abs.n = -50

----------------------------------------------------------------------------
(* Anomaly detection: claims *)

\* The non-missing values of the series
Present == {series[i].v : i \in {k \in 1..Len(series) : ~series[k].na}}

PresentAt == {k \in 1..Len(series) : ~series[k].na}

\* The sum of the values at a set of positions
RECURSIVE SumAt(_)
SumAt(ps) ==
    IF ps = {} THEN 0
    ELSE LET p == CHOOSE q \in ps : TRUE IN series[p].v + SumAt(ps \ {p})

\* N * (v_i - mean) over the non-missing values: N * v_i - sum
DeviationAt(i) == Cardinality(PresentAt) * series[i].v - SumAt(PresentAt)

\* The sum of the squares of N * (v_j - mean) over a set of positions
RECURSIVE SumOfSquaredDeviations(_)
SumOfSquaredDeviations(ps) ==
    IF ps = {} THEN 0
    ELSE LET p == CHOOSE q \in ps : TRUE
         IN  DeviationAt(p) * DeviationAt(p) + SumOfSquaredDeviations(ps \ {p})

\* Whether |v_i - mean| / sigma > threshold, with sigma^2 the mean of the squared
\* deviations of the non-missing values (denominator N)
ZScoreAbove(i, t) ==
    \/ t.n < 0
    \/ Cardinality(PresentAt) * DeviationAt(i) * DeviationAt(i) * t.d * t.d
          > t.n * t.n * SumOfSquaredDeviations(PresentAt)

C11_boundary ==
    /\ flags.called /\ flags.threshold = Ratio(1, 1)
    /\ series = <<Cell(98), Cell(102)>>
    /\ flags.out = <<FALSE, FALSE>>

\* The yearly totals of the end-to-end scenario
ScenarioTotals == <<Cell(100), Cell(105), Cell(98), Cell(500), Cell(102)>>

\* C12 as stated: the totals [100, 105, 98, 500, 102] checked with threshold 3.0
\* flag the value 500 and no other.
C12_flags_only_500 ==
    (flags.called /\ series = ScenarioTotals /\ flags.threshold = Ratio(3, 1)) =>
        flags.out = <<FALSE, FALSE, FALSE, TRUE, FALSE>>

\* C12 amended: with threshold 3.0 no value of [100, 105, 98, 500, 102] is flagged
\* (the score of 500 is 319 / 159.5 = 2.0); 500 alone is flagged with threshold 1.5.
C12_flags_none_at_3 ==
    (flags.called /\ series = ScenarioTotals) =>
        /\ flags.threshold = Ratio(3, 1) =>
              flags.out = <<FALSE, FALSE, FALSE, FALSE, FALSE>>
        /\ flags.threshold = Ratio(3, 2) =>
              flags.out = <<FALSE, FALSE, FALSE, TRUE, FALSE>>

\* C12 witness: the scenario was checked with threshold 3.0
C12_witness ==
    flags.called /\ series = ScenarioTotals /\ flags.threshold = Ratio(3, 1)

----------------------------------------------------------------------------
(* Indicator loader: errors *)

\* C15: load_indicator with a key outside the registry raises the unknown-indicator
\* error whatever the data directory holds (nothing, valid files, files that would
\* fail), and no file is reached.
C15_unknown_indicator_first ==
    (loaded.kind # "none" /\ loaded.key \notin INDICATORS) =>
        /\ loaded.kind = "UnknownIndicator"
        /\ loaded.file = 0 /\ loaded.missing = {} /\ loaded.shown = <<>>
        /\ loaded.table = <<>>

\* C15 witness: an unregistered key was requested from an empty directory
C15_witness ==
    loaded.kind = "UnknownIndicator" /\ loaded.key = "solar" /\ dir = <<>>

\* C15 witness: an unregistered key was requested where a file lacks a column
C15_witness_bad_file ==
    /\ loaded.kind = "UnknownIndicator" /\ loaded.key = "solar"
    /\ \E i \in 1..Len(dir) : "Value" \notin dir[i].cols

\* C16: load_indicator with a registered key and no spreadsheet in the data
\* directory raises the no-data-files error; it returns no table, empty or not.
C16_no_data_files ==
    (loaded.kind # "none" /\ loaded.key \in INDICATORS /\ dir = <<>>) =>
        /\ loaded.kind = "NoDataFiles"
        /\ loaded.table = <<>>

\* C16 witness: a registered key was requested from an empty directory
C16_witness ==
    loaded.via = "agent" /\ loaded.key = "energy" /\ dir = <<>> /\ loaded.kind = "NoDataFiles"

\* The rows of a sheet whose Month is none of the accepted spellings
UnrecognisedRows(f) ==
    IF "Month" \in f.cols THEN {j \in 1..Len(f.rows) : f.rows[j].Month \notin Accepted}
    ELSE {}

\* The message of the format error shows the first unrecognised Month of the file as given
ShowsRawMonth ==
    LET f == dir[loaded.file]
        j == CHOOSE x \in UnrecognisedRows(f) : \A y \in UnrecognisedRows(f) : x <= y
    IN  UnrecognisedRows(f) # {} /\ Contains(loaded.shown, Str(f.rows[j].Month))

\* C17: when a row of some file has a Month that is no accepted spelling,
\* load_indicator returns no table; when every file has the required columns it
\* raises the format error, and the message of a format error contains the
\* offending value as it stands in the sheet.
C17_month_format_error ==
    (/\ loaded.kind # "none" /\ loaded.key \in INDICATORS
     /\ \E i \in 1..Len(dir) : UnrecognisedRows(dir[i]) # {})
    => /\ loaded.kind \in {"MonthFormat", "MissingColumns"}
       /\ loaded.table = <<>>
       /\ (\A i \in 1..Len(dir) : RequiredBy(loaded.via) \subseteq dir[i].cols)
             => loaded.kind = "MonthFormat"
       /\ loaded.kind = "MonthFormat" => ShowsRawMonth

\* C17, the loader of src/data_loader.py alone
C17_explorer_month_format_error == loaded.via = "explorer" => C17_month_format_error

\* C17 without the message: an unrecognised Month is never coerced into a table
C17_no_table_on_unrecognised_month ==
    (/\ loaded.kind # "none" /\ loaded.key \in INDICATORS
     /\ \E i \in 1..Len(dir) : UnrecognisedRows(dir[i]) # {})
    => /\ loaded.kind \in {"MonthFormat", "MissingColumns"}
       /\ loaded.table = <<>>
       /\ (\A i \in 1..Len(dir) : RequiredBy(loaded.via) \subseteq dir[i].cols)
             => loaded.kind = "MonthFormat"

----------------------------------------------------------------------------
(* Indicator column: claims *)

\* C18 as stated: every row of the table load_indicator(key) returns carries the
\* requested indicator; a row whose Indicator cell names another indicator is not
\* in the table.
C18_same_indicator_key ==
    loaded.kind = "table" =>
        \A k \in 1..Len(loaded.table) :
            loaded.table[k].Indicator \in {loaded.key, NoIndicator}

\* C18, what the loaders do: every row of the sheet is returned with the Indicator
\* cell it has in the sheet
C18_indicator_cell_unchecked ==
    loaded.kind = "table" =>
        /\ Len(loaded.table) = RowCount(dir)
        /\ \A k \in 1..Len(loaded.table) :
              LET o == loaded.table[k].origin
              IN  loaded.table[k].Indicator = dir[o[1]].rows[o[2]].Indicator

----------------------------------------------------------------------------
(* The agent and the report builder: claims *)

\* The years of the rows in the data directory and the total of each
DataYears == {dir[o[1]].rows[o[2]].Year.v : o \in Origins}

RECURSIVE TotalOver(_, _)
TotalOver(os, year) ==
    IF os = {} THEN 0
    ELSE LET o == CHOOSE x \in os : TRUE
             row == dir[o[1]].rows[o[2]]
         IN  (IF row.Year.v = year THEN row.Value ELSE 0) + TotalOver(os \ {o}, year)

DataTotal(year) == TotalOver(Origins, year)

\* The indicator and the years each query asks for (no year: the latest of the data)
AsksIndicator == reply.query # <<"h", "e", "l", "l", "o", " ", "2", "0", "2", "0">>

AskedYears ==
    IF reply.query = <<"e", "n", "e", "r", "g", "y", " ", "2", "0", "2", "0">> THEN <<2020>>
    ELSE IF reply.query = <<"e", "n", "e", "r", "g", "y", " ", "2", "0", "1", "9">> THEN <<2019>>
    ELSE IF reply.query = <<"E", "n", "e", "r", "g", "y", " ", "2", "0", "2", "1", " ", "2", "0", "2", "0", " ", "2", "0", "1", "9">> THEN <<2021, 2020, 2019>>
    ELSE IF reply.query = <<"h", "e", "l", "l", "o", " ", "2", "0", "2", "0">> THEN <<2020>>
    ELSE IF DataYears = {} THEN <<>>
    ELSE <<CHOOSE y \in DataYears : \A z \in DataYears : z <= y>>

\* The asked years that the data has, in the order asked
AskedAndPresent == SelectSeq(AskedYears, LAMBDA y : y \in DataYears)

\* answer got as far as loading a table
AnswerLoaded == reply.called /\ AsksIndicator /\ dir # <<>>

\* The sections of the report that found their indicator's data
ReportLoaded == report.called /\ dir # <<>>

\* C13 as stated: with 0 or 1 yearly points the forecast is unavailable, and answer
\* and build_gri_pdf_report still return their result, without a forecast (the
\* narrative generator not failing).
C13_forecast_unavailable_non_fatal ==
    /\ (AnswerLoaded /\ reply.failing = {} /\ Cardinality(DataYears) < 2) =>
          /\ reply.out.kind \in {"context", "years_not_found"}
          /\ reply.out.returned = NoForecast
          /\ reply.out.context.forecast = [next_year |-> Null, predicted_value |-> Null]
    /\ (ReportLoaded /\ Cardinality(DataYears) < 2) =>
          /\ report.out.kind = "pdf"
          /\ \A k \in 1..Len(report.out.sections) :
                report.out.sections[k].forecast = NoForecast

\* C13 with exactly one yearly point: the forecaster raises, the callers go on
C13_one_point_non_fatal ==
    /\ (AnswerLoaded /\ reply.failing = {} /\ Cardinality(DataYears) = 1) =>
          /\ reply.out.kind \in {"context", "years_not_found"}
          /\ reply.out.returned = NoForecast
          /\ reply.out.context.forecast = [next_year |-> Null, predicted_value |-> Null]
    /\ (ReportLoaded /\ Cardinality(DataYears) = 1) =>
          /\ report.out.kind = "pdf"
          /\ \A k \in 1..Len(report.out.sections) :
                report.out.sections[k].forecast = NoForecast

\* C13 witnesses: one yearly point, answer returned a context and the report a PDF
C13_one_point_answered ==
    /\ AnswerLoaded /\ Cardinality(DataYears) = 1 /\ RowCount(dir) = 2
    /\ reply.out.kind = "context" /\ "forecast" \in reply.out.calls

C13_one_point_reported ==
    /\ ReportLoaded /\ Cardinality(DataYears) = 1 /\ report.include_forecast
    /\ report.out.kind = "pdf" /\ Len(report.out.sections) = 2

\* Sums over the years of the data
RECURSIVE SumOfSet(_)
SumOfSet(S) == IF S = {} THEN 0 ELSE LET x == CHOOSE y \in S : TRUE IN x + SumOfSet(S \ {x})

RECURSIVE SumOfTotals(_)
SumOfTotals(S) ==
    IF S = {} THEN 0
    ELSE LET x == CHOOSE y \in S : TRUE IN DataTotal(x) + SumOfTotals(S \ {x})

\* n * (year - mean year) and n * (total - mean total) over the years of the data
ScaledYear(y) == Cardinality(DataYears) * y - SumOfSet(DataYears)
ScaledTotal(y) ==
    Cardinality(DataYears) * DataTotal(y) - SumOfTotals(DataYears)

\* sum(dx * dx) when squares, else sum(dx * dy), over a set of years
RECURSIVE SumOfProducts(_, _)
SumOfProducts(S, squares) ==
    IF S = {} THEN 0
    ELSE LET x == CHOOSE y \in S : TRUE
         IN  ScaledYear(x) * (IF squares THEN ScaledYear(x) ELSE ScaledTotal(x))
             + SumOfProducts(S \ {x}, squares)

\* The forecast p at year x lies on the least-squares line of the data: the line
\* through (mean year, mean total) and (x, p) has the least-squares slope
\* sum(dx * dy) / sum(dx * dx)
OnLeastSquaresLine(x, p) ==
    (Cardinality(DataYears) * p.n - SumOfTotals(DataYears) * p.d) * SumOfProducts(DataYears, TRUE)
        = SumOfProducts(DataYears, FALSE) * p.d * ScaledYear(x)

C14_witness_three_points ==
    /\ reply.called /\ reply.out.kind = "context"
    /\ DataYears = {2020, 2021, 2022}
    /\ DataTotal(2020) = 100 /\ DataTotal(2021) = 200 /\ DataTotal(2022) = 100
    /\ reply.out.returned.ok

\* C19 as stated: when no asked year is in the yearly series, answer returns the
\* descriptive result with the available years; otherwise the years of the context
\* are the asked years that are available, in the order asked (the narrative
\* generator not failing).
C19_requested_years ==
    (AnswerLoaded /\ reply.failing = {}) =>
        IF AskedAndPresent = <<>>
        THEN /\ reply.out.kind = "years_not_found"
             /\ reply.out.available = Ascending(DataYears)
        ELSE /\ reply.out.kind = "context"
             /\ reply.out.context.years = AskedAndPresent

\* C19 for a table with at least one row
C19_requested_years_of_data == DataYears # {} => C19_requested_years

\* C19 witnesses: an asked year is missing; three years asked, two of them present
C19_years_not_found ==
    /\ AnswerLoaded /\ reply.out.kind = "years_not_found"
    /\ reply.out.available = <<2020, 2022>> /\ AskedYears = <<2019>>

C19_years_in_request_order ==
    /\ AnswerLoaded /\ reply.out.kind = "context"
    /\ AskedYears = <<2021, 2020, 2019>> /\ reply.out.context.years = <<2021, 2020>>

\* answer got as far as the forecast: the indicator was detected, the table has a
\* row and an asked year is present
AnswerAssembles == AnswerLoaded /\ DataYears # {} /\ AskedAndPresent # <<>>

\* C20 as stated: a failing forecast or a failing narrative does not fail answer;
\* the response is built without the forecast, or without the narrative of the
\* year it failed for.
C20_enrichment_failures_caught ==
    AnswerAssembles =>
        /\ reply.out.kind = "context"
        /\ Cardinality(DataYears) < 2 =>
              reply.out.context.forecast = [next_year |-> Null, predicted_value |-> Null]
        /\ reply.out.context.narratives
              = {AskedAndPresent[k] : k \in 1..Len(AskedAndPresent)} \ reply.failing

\* C20 for the forecast alone: a forecast that raised leaves a context without it
C20_forecast_failure_caught ==
    (AnswerAssembles /\ reply.failing = {}) =>
        /\ reply.out.kind = "context"
        /\ Cardinality(DataYears) < 2 =>
              /\ reply.out.returned = NoForecast
              /\ reply.out.context.forecast = [next_year |-> Null, predicted_value |-> Null]
              /\ reply.out.context.kpis # <<>>

\* C21 as stated: when the table loaded for the detected indicator has no row (so
\* the yearly series is empty too), answer returns a result and does not raise.
C21_empty_table_no_data ==
    (AnswerLoaded /\ DataYears = {}) => reply.out.kind # "raised"

\* C21: what answer does with a table that has no row: IndexError from
\* df["Unit"].iloc[0], after the table was cached and before anything is written
C21_empty_table_raises ==
    (AnswerLoaded /\ DataYears = {}) =>
        /\ reply.out.kind = "raised" /\ reply.out.error = "IndexError"
        /\ reply.out.table = Cached(<<>>)
        /\ reply.out.files = {}

----------------------------------------------------------------------------
(* Indicator and year detection: claims *)

\* Two characters that are the same up to letter case
SameLetter(a, b) ==
    a = b \/ \E i \in 1..26 : {a, b} = {LowerCase[i], UpperCase[i]}

\* The word occurs in the detected text as a substring, letter case aside
OccursIn(word, text) ==
    \E i \in 1..Len(text) :
        /\ i + Len(word) - 1 <= Len(text)
        /\ \A j \in 1..Len(word) : SameLetter(text[i + j - 1], word[j])

\* The synonym list of each indicator
Synonyms ==
    [energy |-> {<<"e", "n", "e", "r", "g", "y">>, <<"e", "l", "e", "c", "t", "r", "i", "c", "i", "t", "y">>, <<"3", "0", "2">>},
     water |-> {<<"w", "a", "t", "e", "r">>, <<"3", "0", "3">>},
     emissions |-> {<<"e", "m", "i", "s", "s", "i", "o", "n">>, <<"c", "o", "2">>, <<"g", "h", "g">>, <<"3", "0", "5">>},
     waste |-> {<<"w", "a", "s", "t", "e">>, <<"3", "0", "6">>}]

Mentions(key) == \E w \in Synonyms[key] : OccursIn(w, detected.text)

\* C22: _detect_indicator gives the first indicator, in the order energy, water,
\* emissions, waste, that has a synonym in the query as a substring, letter case
\* aside; it gives None exactly when the query has no synonym of any indicator.
C22_first_indicator_in_order ==
    detected.called =>
        /\ Mentions("energy") => detected.indicator = "energy"
        /\ (~Mentions("energy") /\ Mentions("water")) => detected.indicator = "water"
        /\ (~Mentions("energy") /\ ~Mentions("water") /\ Mentions("emissions"))
              => detected.indicator = "emissions"
        /\ (~Mentions("energy") /\ ~Mentions("water") /\ ~Mentions("emissions")
              /\ Mentions("waste")) => detected.indicator = "waste"
        /\ (detected.indicator = None) <=> \A key \in INDICATORS : ~Mentions(key)

\* C22 witnesses: a water and an energy synonym, the water one first, give energy;
\* "wastewater" gives water; "305" typed in two pieces gives emissions; no synonym
C22_witness ==
    /\ detected.called
    /\ query = <<<<"w", "a", "t", "e", "r">>, <<" ">>, <<"E", "n", "e", "r", "g", "y">>>>
    /\ detected.indicator = "energy"

C22_witness_wastewater ==
    /\ detected.called
    /\ query = <<<<"w", "a", "s", "t", "e">>, <<"w", "a", "t", "e", "r">>>>
    /\ detected.indicator = "water"

C22_witness_code ==
    /\ detected.called
    /\ query = <<<<"3", "0">>, <<"5">>>>
    /\ detected.indicator = "emissions"

C22_witness_none ==
    /\ detected.called
    /\ query = <<<<"x">>, <<"2", "0", "2", "1">>>>
    /\ detected.indicator = None

\* The tokens of the detected text: the maximal runs of characters other than " "
TokenStartsAt(i) ==
    /\ detected.text[i] # " "
    /\ i = 1 \/ detected.text[i - 1] = " "

TokenEnd(i) ==
    CHOOSE j \in i..Len(detected.text) :
        /\ \A k \in i..j : detected.text[k] # " "
        /\ j = Len(detected.text) \/ detected.text[j + 1] = " "

\* A token of exactly four characters, "20" and two digits, starts at i
YearTokenAt(i) ==
    /\ TokenStartsAt(i)
    /\ TokenEnd(i) = i + 3
    /\ detected.text[i] = "2" /\ detected.text[i + 1] = "0"
    /\ IsDigit(detected.text[i + 2]) /\ IsDigit(detected.text[i + 3])

\* The years of the year tokens from position i on, in order of appearance
RECURSIVE YearTokensFrom(_)
YearTokensFrom(i) ==
    IF i > Len(detected.text) THEN <<>>
    ELSE (IF YearTokenAt(i)
          THEN <<2000 + 10 * DigitValue(detected.text[i + 2])
                      + DigitValue(detected.text[i + 3])>>
          ELSE <<>>) \o YearTokensFrom(i + 1)

\* C23 as stated: _detect_years returns the years of the 4-digit tokens starting
\* with "20", in order of appearance (digits inside a longer token give no year),
\* and the latest year of the table when the query has no such token.
C23_year_tokens ==
    detected.called =>
        detected.years = IF YearTokensFrom(1) # <<>> THEN YearTokensFrom(1)
                         ELSE <<detected.latest>>

\* C23 for queries in which no token longer than four characters holds a digit
C23_year_tokens_when_delimited ==
    (\A i \in 1..Len(detected.text) :
        (TokenStartsAt(i) /\ TokenEnd(i) > i + 3)
            => \A k \in i..TokenEnd(i) : ~IsDigit(detected.text[k]))
    => C23_year_tokens

\* C23 witnesses: two year tokens in order; no year token, the latest year of the table
C23_two_year_tokens ==
    /\ detected.called
    /\ query = <<<<"2", "0", "2", "1">>, <<" ">>, <<"2", "0", "2", "1">>>>
    /\ detected.years = <<2021, 2021>>

C23_latest_year_by_default ==
    /\ detected.called
    /\ query = <<<<"w", "a", "t", "e", "r">>>>
    /\ detected.years = <<2022>>

----------------------------------------------------------------------------
(* The agent's cache: claims *)

\* C24: whatever file changes, cache clears and calls came before, a call of
\* _get_data(key) reads the files as they are at the call: it returns the table
\* load_indicator computes from them and leaves that table as cache[key], the
\* entries of the other keys unchanged; when the loader raises, so does the call,
\* and no entry is written.
C24_get_data_reads_files_at_call ==
    [][fetched' # fetched =>
          /\ fetched'.out = load_indicator(fetched'.key, dir)
          /\ fetched'.out.kind = "table" =>
                cache'[fetched'.key] = Cached(fetched'.out.table)
          /\ fetched'.out.kind # "table" => cache'[fetched'.key] = cache[fetched'.key]
          /\ \A k \in INDICATORS \ {fetched'.key} : cache'[k] = cache[k]]_vars

\* C24 witness: energy was fetched after the files had changed since water was
\* fetched: the energy entry is the returned two-row table, the water entry still
\* the one-row table read earlier
C24_witness ==
    /\ fetched.called /\ fetched.key = "energy"
    /\ Len(fetched.out.table) = 2
    /\ cache["energy"] = Cached(fetched.out.table)
    /\ cache["water"].cached /\ Len(cache["water"].rows) = 1

\* C24 witness: the files were removed; the call raised and the entry stayed
C24_witness_stale_after_removal ==
    /\ fetched.called /\ fetched.key = "energy"
    /\ fetched.out.kind = "NoDataFiles"
    /\ cache["energy"].cached /\ Len(cache["energy"].rows) = 2

----------------------------------------------------------------------------
(* Month normalisation: round trip *)

\* C25: normalize_month (either copy) returns n for every integer n in 1..12, and
\* for every accepted input the month it returned, normalised again, is returned
\* unchanged.
C25_normalize_month_idempotent ==
    /\ (monthVia # "none" /\ \E n \in 1..12 : monthIn = IntVal(n))
          => monthOut = Returned(monthIn.v)
    /\ monthAgain # NoResult => monthAgain = monthOut

\* C25 witness: "Sep" gave 9, and 9 normalised again gave 9
C25_witness ==
    /\ monthVia = "agent"
    /\ monthIn = StrVal(<<"S", "e", "p">>)
    /\ monthOut = Returned(9)
    /\ monthAgain = Returned(9)

\* C25 witness: the integer 12 through the Data Explorer's copy
C25_witness_integer ==
    /\ monthVia = "explorer"
    /\ monthIn = IntVal(12)
    /\ monthAgain = Returned(12)

----------------------------------------------------------------------------
(* Anomaly detection at the default threshold: claims *)

\* The number of values of the series that are not missing
RECURSIVE NonMissing(_)
NonMissing(s) ==
    IF s = <<>> THEN 0 ELSE (IF Head(s).na THEN 0 ELSE 1) + NonMissing(Tail(s))

NoneFlagged == \A i \in 1..Len(flags.out) : ~flags.out[i]

C26_flagged_at_10 ==
    /\ flags.called
    /\ series = [k \in 1..10 |-> Cell(IF k = 10 THEN 101 ELSE 100)]
    /\ flags.out[10]

----------------------------------------------------------------------------
(* The forecast in the context: claims *)

\* C27 as stated: when forecast_next_year succeeded, the context of answer carries
\* the year and the value it returned, a value of 0 included; predicted_value is
\* None only when the forecast failed.
C27_forecast_carried ==
    (reply.called /\ reply.out.kind = "context") =>
        /\ reply.out.returned.ok =>
              /\ reply.out.context.forecast.next_year = Num(reply.out.returned.next_year)
              /\ reply.out.context.forecast.predicted_value = reply.out.returned.predicted
        /\ reply.out.context.forecast.predicted_value = Null => ~reply.out.returned.ok

\* C27 for a forecast other than 0
C27_nonzero_forecast_carried ==
    (reply.called /\ reply.out.kind = "context" /\ reply.out.returned.ok
        /\ reply.out.returned.predicted # Num(0))
    => C27_forecast_carried

\* C27: a forecast of 0 reaches the context as None, next to its year; the report
\* builder draws no forecast for it
C27_zero_forecast_dropped ==
    /\ (reply.called /\ reply.out.kind = "context" /\ reply.out.returned.ok
          /\ reply.out.returned.predicted = Num(0))
          => /\ reply.out.context.forecast.predicted_value = Null
             /\ reply.out.context.forecast.next_year = Num(reply.out.returned.next_year)
    /\ (report.called /\ report.out.kind = "pdf" /\ report.include_forecast
          /\ DataYears = {2020, 2021} /\ DataTotal(2020) = 200 /\ DataTotal(2021) = 100)
          => \A k \in 1..Len(report.out.sections) :
                report.out.sections[k].forecast = NoForecast

\* C27 witnesses: totals 200 then 100 forecast 0 for 2022; totals 100 then 200
\* forecast 300
C27_zero_forecast_answered ==
    /\ reply.called /\ reply.out.kind = "context"
    /\ DataYears = {2020, 2021} /\ DataTotal(2020) = 200 /\ DataTotal(2021) = 100
    /\ reply.out.returned = [ok |-> TRUE, next_year |-> 2022, predicted |-> Num(0)]

C27_nonzero_forecast_answered ==
    /\ reply.called /\ reply.out.kind = "context"
    /\ reply.out.returned.ok
    /\ reply.out.context.forecast.predicted_value = Num(300)

----------------------------------------------------------------------------
(* The effects of answer: claims *)

\* C28: a call of answer for a query with no indicator keyword loads no data,
\* leaves the cache as it was and writes no file; a call whose asked years are all
\* unavailable writes no file and calls neither the forecaster nor the narrative
\* generator; the CSV and PDF files are written only by a call that builds the
\* indicator context.
C28_early_returns_write_nothing ==
    [][(~reply.called /\ reply'.called) =>
          /\ reply'.out.kind = "general" =>
                /\ cache' = cache
                /\ written' = written
                /\ reply'.out.calls \cap {"load", "write_csv", "write_pdf"} = {}
          /\ reply'.out.kind = "years_not_found" =>
                /\ written' = written
                /\ reply'.out.calls
                      \cap {"write_csv", "write_pdf", "forecast", "narrative"} = {}
          /\ written' # written =>
                /\ reply'.out.kind = "context"
                /\ {"write_csv", "write_pdf"} \subseteq reply'.out.calls]_vars

\* C28 witnesses: the three paths, each over a workbook with data
C28_witness ==
    /\ reply.called /\ reply.out.kind = "years_not_found"
    /\ DataYears = {2020, 2021}
    /\ cache["energy"].cached /\ written = {}

C28_witness_general ==
    /\ reply.called /\ reply.out.kind = "general"
    /\ DataYears # {}
    /\ \A k \in INDICATORS : ~cache[k].cached
    /\ written = {}

C28_witness_context ==
    /\ reply.called /\ reply.out.kind = "context"
    /\ written = ReportFiles("energy") /\ written # {}

----------------------------------------------------------------------------
(* The file watcher: claims *)

\* The files the loader reads that differ between two states of the directory
ChangedDataFiles(before, after) ==
    {f \in discover_files(before) \cup discover_files(after) : before[f] # after[f]}

\* The files the watcher scans that differ between two states of the directory
ChangedScannedFiles(before, after) ==
    {f \in scan_data_files(before) \cup scan_data_files(after) : before[f] # after[f]}

\* C29: detect_file_changes returns True exactly when a data file the loader reads
\* was added, modified or deleted since the previous scan, and afterwards the
\* recorded timestamps are the current data files with their modification times
C29_detects_exactly_the_changes ==
    scan.called =>
        /\ scan.changed <=> (ChangedDataFiles(scan.before, scan.files) # {})
        /\ \A f \in FileNames :
              scan.timestamps[f] =
                  IF f \in discover_files(scan.files) THEN scan.files[f] ELSE 0

\* C29: a change of an .xls file, which the loader reads, is the only change since
\* the previous scan, and the call returns False and records nothing for the file
C29_xls_change_missed ==
    /\ scan.called
    /\ ~scan.refreshed
    /\ ~scan.changed
    /\ \E f \in ChangedDataFiles(scan.before, scan.files) :
          /\ f \in discover_files(scan.files)
          /\ scan.timestamps[f] = 0

\* C29: the call after a refresh returns True although no file changed
C29_true_after_refresh ==
    /\ scan.called
    /\ scan.refreshed
    /\ scan.changed
    /\ scan.before = scan.files

\* C29: without a refresh since the previous scan, the call returns True exactly
\* when an .xlsx file was added, modified or deleted since then; after every call
\* the recorded timestamps are the current .xlsx files with their modification times
C29_xlsx_changes_detected ==
    scan.called =>
        /\ ~scan.refreshed =>
              (scan.changed <=> (ChangedScannedFiles(scan.before, scan.files) # {}))
        /\ \A f \in FileNames :
              scan.timestamps[f] =
                  IF f \in scan_data_files(scan.files) THEN scan.files[f] ELSE 0

\* C29: an .xlsx file was deleted since the previous scan and the call returned True
C29_xlsx_deletion_detected ==
    /\ scan.called
    /\ ~scan.refreshed
    /\ scan.changed
    /\ \E f \in ChangedScannedFiles(scan.before, scan.files) : scan.files[f] = 0

\* C29: a second call with no file change in between returned False
C29_second_call_false ==
    /\ scan.called
    /\ ~scan.refreshed
    /\ ~scan.changed
    /\ scan.before = scan.files
    /\ scan_data_files(scan.files) # {}

----------------------------------------------------------------------------
(* The copies of the anomaly check: claims *)

\* The row of the compared year in the yearly series, 0 when the year is absent
RowOfYear ==
    IF \E i \in 1..Len(yearlySeries) : yearlySeries[i].Year = compared.year
    THEN CHOOSE i \in 1..Len(yearlySeries) : yearlySeries[i].Year = compared.year
    ELSE 0

\* C30: the agent's, the dashboard's and the report page's flags are the same for
\* every year of the series, the inline check of build_gri_pdf_report for a year
\* of the series gives that flag too, and it gives no anomaly for an absent year
C30_copies_agree ==
    compared.called =>
        /\ compared.dashboard = compared.agent
        /\ compared.simple = compared.agent
        /\ RowOfYear # 0 => compared.inline = compared.agent[RowOfYear]
        /\ RowOfYear = 0 => ~compared.inline

\* C30: the four copies agree on every year of the series
C30_copies_agree_on_present_years ==
    compared.called =>
        /\ compared.dashboard = compared.agent
        /\ compared.simple = compared.agent
        /\ RowOfYear # 0 => compared.inline = compared.agent[RowOfYear]

\* C30: a year of the series is flagged by all four copies
C30_present_year_flagged ==
    /\ compared.called
    /\ RowOfYear # 0
    /\ compared.agent[RowOfYear]
    /\ compared.dashboard[RowOfYear]
    /\ compared.simple[RowOfYear]
    /\ compared.inline

\* C30: build_gri_pdf_report reports an anomaly for a year absent from the series
C30_absent_year_flagged ==
    /\ compared.called
    /\ RowOfYear = 0
    /\ compared.inline

\* C30: the same in a report built from a workbook: the requested year has no row
\* in the loaded table and its section is marked as an anomaly
C30_report_flags_absent_year ==
    /\ report.called
    /\ report.out.kind = "pdf"
    /\ \E k \in 1..Len(report.out.sections) :
          /\ report.out.sections[k].kind = "section"
          /\ report.out.sections[k].is_anom
          /\ \A i \in 1..Len(load_indicator(report.out.sections[k].ind, dir).table) :
                load_indicator(report.out.sections[k].ind, dir).table[i].Year # report.year

====
